---------------------------- MODULE Spec2Model ----------------------------
(***************************************************************************)
(* A model of the 2602_money trading pipeline's persistent ledgers and the *)
(* operations that change them.  Every operation of the source is one      *)
(* action; every table of src/core/db.py that an operation reads or writes *)
(* is one variable.                                                        *)
(*                                                                         *)
(* Units.  Money is whole KRW.  Basis-point quantities (fee_bps,           *)
(* slippage_bps) and the fractional thresholds of the sell rule are kept   *)
(* as integers in units of 1/10000, so that -0.035 is -350 and 0.06 is     *)
(* 600.  The Python code computes in binary floating point; the model      *)
(* computes the same expressions in exact arithmetic, on inputs (prices    *)
(* that are multiples of 10000, rates that are multiples of 100 bps) for   *)
(* which every quotient of the code is a whole number.                     *)
(***************************************************************************)
EXTENDS Integers, Sequences, FiniteSets, TLC

VARIABLES
    \* ---- paper ledger (src/core/db.py: paper_orders, paper_positions, paper_accounts)
    paper_orders,      \* append-only order log, a sequence of rows
    paper_positions,   \* current holdings, a sequence of rows in rowid order
    paper_accounts,    \* append-only cash/nav snapshots
    paper_settings,    \* the Settings fields the hourly job passes to the simulator
    today,             \* the calendar date of now_kst()
    cyc,               \* what the last run_paper_trading call was given and did
    \* ---- live ledger (src/core/db.py: live_orders, live_positions, live_accounts, bot_state)
    live_orders,       \* append-only log of the orders sent to the broker
    live_positions,    \* the holdings of the latest broker snapshot
    live_accounts,     \* append-only broker balance snapshots
    live_trade_state,  \* bot_state value of the live-trading switch: "unset", "1" or "0"
    live_settings,     \* the LIVE_* fields of Settings
    live_run,          \* the execute_live_trading call in flight, or the last one's summary
    live_sync,         \* what the last sync_live_snapshot call was given and did
    \* ---- strategy store (src/core/db.py: weights, strategy_state)
    weights,           \* weight versions, a sequence of rows in version order
    strategy_state,    \* regime versions, a sequence of rows in state_id order
    writer,            \* the nightly job's position inside a two-statement supersede
    tune,              \* what the last tune_weights call was given and returned
    \* ---- outcome attribution (src/core/db.py: runs, candidates, price_snapshots, outcomes)
    runs,              \* hourly scans, a sequence of rows in run_id order
    candidates,        \* the candidates of every scan
    price_snapshots,   \* the prices recorded by every scan
    outcomes,          \* realised returns keyed by (run_id, ticker, horizon)
    now,               \* now_kst(), in hours
    fill,              \* what the last fill_outcomes call was given and returned
    \* ---- strategy lab (src/core/db.py: strategy_experiments)
    strategy_experiments,  \* grid-search results, a sequence of rows in exp_id order
    lab,               \* what the last run_strategy_lab call was given and returned
    \* ---- observations of single calls
    overlay,           \* what the last _build_risk_overlay call was given and returned
    rebalance,         \* what the last update_strategy_state call was given and returned
    buy,               \* what the last BUY order was given and how it was recorded
    \* ---- the scheduled jobs (src/jobs)
    job,               \* the job that runs: its position, what it sent, how it exited
    crash,             \* the paper cycles that were interrupted, and after which write
    exit_pass,         \* what the last exit pass followed on its own was given and left
    sell_rules,        \* what the two sell rules answered to the same features
    training,          \* what the last build_training_report call was given and returned
    order_call,        \* what the last place_cash_order call was given, sent and returned
    chat               \* the Telegram inbox, the stored offset and what run_chat_commands handled

paperVars == <<paper_orders, paper_positions, paper_accounts, paper_settings, cyc>>

liveVars == <<live_orders, live_positions, live_accounts, live_trade_state,
              live_settings, live_run, live_sync>>

storeVars == <<weights, strategy_state, writer, tune>>

outcomeVars == <<runs, candidates, price_snapshots, outcomes, now, fill>>

callVars == <<strategy_experiments, lab, overlay, rebalance, buy>>

\* the observations added last
tailVars == <<sell_rules, training, order_call, chat>>

jobVars == <<callVars, job, crash, exit_pass, tailVars>>

\* everything but the observations added last
headVars == <<today, paperVars, liveVars, storeVars, outcomeVars, callVars, job, crash,
              exit_pass>>

vars == <<paper_orders, paper_positions, paper_accounts, paper_settings, today, cyc,
          live_orders, live_positions, live_accounts, live_trade_state,
          live_settings, live_run, live_sync,
          weights, strategy_state, writer, tune,
          runs, candidates, price_snapshots, outcomes, now, fill,
          strategy_experiments, lab, overlay, rebalance, buy, job, crash,
          exit_pass, sell_rules, training, order_call, chat>>

-----------------------------------------------------------------------------
(* Bounds of the model *)

MaxCycles == 2          \* paper cycles per behaviour
MaxLiveRuns == 2        \* execute_live_trading calls per behaviour
MaxSnapshots == 2       \* live_accounts rows written by the chat command
MaxTuneRuns == 2        \* tune_weights calls per behaviour
MaxSupersedes == 3      \* supersedes of an active row the nightly job starts
MaxRuns == 2            \* hourly scans per behaviour
MaxFills == 2           \* fill_outcomes calls per behaviour
MaxLabRuns == 3         \* runs in the strategy lab's dataset
MaxLabCalls == 2        \* run_strategy_lab calls per behaviour
MaxOverlayCalls == 2    \* _build_risk_overlay calls per behaviour
MaxRebalances == 2      \* update_strategy_state calls per behaviour
MaxBuyOrders == 2       \* BUY orders followed on their own per behaviour
MaxBuyQty == 10         \* largest quantity of such an order
MaxRetryCap == 6        \* largest buyable quantity the broker reports
MaxJobRuns == 3         \* scheduled jobs per behaviour
MaxKills == 1           \* interrupted paper cycles per behaviour
MaxExitPasses == 1      \* exit passes followed on their own per behaviour
MaxRuleCalls == 1       \* comparisons of the two sell rules per behaviour
MaxTrainingCalls == 1   \* build_training_report calls per behaviour
MaxOrderCalls == 1      \* place_cash_order calls per behaviour
MaxUpdates == 3         \* Telegram updates per behaviour
MaxPolls == 2           \* run_chat_commands runs per behaviour

(* Program constants *)

BPS == 10000            \* the divisor of fee_bps and slippage_bps
DefaultCash == 1000000  \* cash of the paper-init row, and of a missing account row
StopLossRet == -350     \* return_1h <= -0.035
TakeProfitRet == 600    \* return_1h >= 0.06
TrendBreakDd == -900    \* drawdown_20 < -0.09

-----------------------------------------------------------------------------
(* Generic helpers *)

Max(a, b) == IF a >= b THEN a ELSE b
Min(a, b) == IF a <= b THEN a ELSE b

RECURSIVE SeqSum(_)
SeqSum(s) == IF s = <<>> THEN 0 ELSE Head(s) + SeqSum(Tail(s))

-----------------------------------------------------------------------------
(* Inputs of one paper cycle *)

Tickers == {"A", "B"}
Prices == {100000, 200000}
Scores == {70, 80}
EntryThresholds == {75}
TradeLimits == {2}
NoRow == [price |-> 0, return_1h |-> 0, drawdown_20 |-> 0]
NoPrice == 0

\* market_state has at most one row per ticker (the feature engine groups by
\* ticker).  A cell says whether the ticker has a row and, if so, whether its
\* features make the sell rule fire; all rows of one scan quote the level p.
MarketCells == [Tickers -> {"none", "hold", "sell"}]

MarketOf(p, cells) ==
    [t \in Tickers |->
        IF cells[t] = "none" THEN NoRow
        ELSE [price |-> p,
              return_1h |-> IF cells[t] = "sell" THEN StopLossRet ELSE 0,
              drawdown_20 |-> 0]]

HasRow(market, t) == market[t] # NoRow

\* ranked_entries: rows of market_state (ticker, score, price), each ticker once,
\* sorted by score descending (run_hourly.py sorts before the call).
RankedOver(market) ==
    LET T == {t \in Tickers : HasRow(market, t)}
        Cand == {[ticker |-> t, score |-> s, price |-> market[t].price] :
                    t \in T, s \in Scores}
    IN  IF Cardinality(T) < 2 THEN {<<>>} \cup {<<c>> : c \in Cand}
        ELSE {<<>>} \cup {cd \in Cand \X Cand :
                            cd[1].ticker # cd[2].ticker /\ cd[1].score >= cd[2].score}

\* fallback_price_map: ticker -> price, NoPrice for a ticker the map lacks.  The
\* map is empty, or quotes every ticker at the level of the scan (the hourly job
\* passes the latest closes the market rows were built from), or quotes every
\* ticker at the other level (any other caller).
FallbackKinds == {"none", "same", "other"}

FallbackOf(p, kind) ==
    [t \in Tickers |-> IF kind = "none" THEN NoPrice
                       ELSE IF kind = "same" THEN p
                       ELSE CHOOSE q \in Prices : q # p]

MaxPositions == {1, 2}
Days == {1, 2}

\* The arguments market_state, ranked_entries and fallback_price_map of one call.
ScenesQuoted(prices, kinds) ==
    UNION { { [market |-> MarketOf(p, cells), ranked |-> r,
               fallback |-> FallbackOf(p, fb)] :
                r \in RankedOver(MarketOf(p, cells)), fb \in kinds } :
            p \in prices, cells \in MarketCells }

Scenes == ScenesQuoted(Prices, FallbackKinds)

-----------------------------------------------------------------------------
(* src/paper/simulator.py *)

\* _daily_order_count: COUNT(*) of paper_orders whose ts_kst has the date prefix.
DailyOrderCount(orders, day) ==
    Cardinality({i \in 1..Len(orders) : orders[i].day = day})

\* _latest_account: cash of the row with the largest account_id, or the default.
LatestAccountCash(accounts) ==
    IF accounts = <<>> THEN DefaultCash ELSE accounts[Len(accounts)].cash

\* _load_positions: rows of paper_positions folded into a dict keyed by ticker;
\* a dict keeps the order of first insertion and the value of the last.
RECURSIVE LoadPositions(_)
LoadPositions(rows) ==
    IF rows = <<>> THEN <<>>
    ELSE LET init == LoadPositions(SubSeq(rows, 1, Len(rows) - 1))
             r == rows[Len(rows)]
             at == {i \in 1..Len(init) : init[i].ticker = r.ticker}
         IN  IF at = {} THEN Append(init, r)
             ELSE [i \in 1..Len(init) |-> IF i \in at THEN r ELSE init[i]]

HeldTickers(positions) == {positions[i].ticker : i \in 1..Len(positions)}

PositionOf(positions, t) ==
    positions[CHOOSE i \in 1..Len(positions) : positions[i].ticker = t]

\* _sell_rule
SellRule_noTakeProfit(row) ==
    IF row.return_1h <= StopLossRet THEN [do_sell |-> TRUE, reason |-> "stop-loss"]
    ELSE IF row.drawdown_20 < TrendBreakDd THEN [do_sell |-> TRUE, reason |-> "trend-break"]
    ELSE [do_sell |-> FALSE, reason |-> ""]
SellRule(row) ==
    IF row.return_1h <= StopLossRet THEN [do_sell |-> TRUE, reason |-> "stop-loss"]
    ELSE IF row.return_1h >= TakeProfitRet THEN [do_sell |-> TRUE, reason |-> "take-profit"]
    ELSE IF row.drawdown_20 < TrendBreakDd THEN [do_sell |-> TRUE, reason |-> "trend-break"]
    ELSE [do_sell |-> FALSE, reason |-> ""]

\* exec_price = base_price * (1 -/+ slippage_bps / 10000)
SellExecPrice(base_price, slippage_bps) == (base_price * (BPS - slippage_bps)) \div BPS
BuyExecPrice(base_price, slippage_bps) == (base_price * (BPS + slippage_bps)) \div BPS

\* (mutant: the fee is never charged)
Fee_dropped(gross, fee_bps) == 0

\* fee = gross * fee_bps / 10000
Fee(gross, fee_bps) == (gross * fee_bps) \div BPS

\* price_map = {market_state prices} | fallback_price_map: in a dict union the
\* right operand's value wins for a key both have.
PriceMap(market, fallback) ==
    [t \in Tickers |->
        IF fallback[t] # NoPrice THEN fallback[t]
        ELSE IF HasRow(market, t) THEN market[t].price
        ELSE NoPrice]

\* _mark_to_market: cash + sum of price_map.get(ticker, avg_price) * qty
RECURSIVE MarkToMarket(_, _, _)
MarkToMarket(cash, positions, price_map) ==
    IF positions = <<>> THEN cash
    ELSE LET p == Head(positions)
             px == IF price_map[p.ticker] # NoPrice THEN price_map[p.ticker] ELSE p.avg_price
         IN  MarkToMarket(cash + px * p.qty, Tail(positions), price_map)

\* The exit pass of run_paper_trading: for ticker in list(positions.keys()).
\* st = [cash, positions, orders, budget_left]
RECURSIVE ExitPass(_, _, _, _)
ExitPass(keys, st, market, in) ==
    IF keys = <<>> THEN st
    ELSE LET ticker == Head(keys)
             row == market[ticker]
             pos == PositionOf(st.positions, ticker)
             rule == SellRule(row)
             qty == pos.qty
             exec_price == SellExecPrice(row.price, in.slippage_bps)
             gross == qty * exec_price
             fee == Fee(gross, in.fee_bps)
             order == [day |-> in.day, side |-> "SELL", ticker |-> ticker, qty |-> qty,
                       price |-> exec_price, reason |-> rule.reason, fee |-> fee,
                       run_id |-> in.run_id]
         IN  IF st.budget_left <= 0 \/ ~HasRow(market, ticker) \/ ~rule.do_sell \/ qty <= 0
             THEN ExitPass(Tail(keys), st, market, in)
             ELSE ExitPass(Tail(keys),
                           [cash |-> st.cash + gross - fee,
                            positions |-> SelectSeq(st.positions, LAMBDA p : p.ticker # ticker),
                            orders |-> Append(st.orders, order),
                            budget_left |-> st.budget_left - 1],
                           market, in)

\* (mutant: the threshold test dropped)
BelowEntryThreshold_never(score, entry_score_threshold) == FALSE

\* if score < entry_score_threshold: continue
BelowEntryThreshold(score, entry_score_threshold) == score < entry_score_threshold

\* (mutant: the positions already open do not use up slots)
Slots_ignoresOpen(max_positions, open) == Max(0, max_positions)

\* slots = max(0, max_positions - len(positions)), and the same in the live entry pass
Slots(max_positions, open) == Max(0, max_positions - open)

\* (mutant: the cash test dropped)
OverCash_never(total_cost, cash) == FALSE

\* if total_cost > cash: continue
OverCash(total_cost, cash) == total_cost > cash

\* The loop of the entry pass: for _, row in ranked_entries.iterrows().
\* est = st plus the slots left; allocation is fixed before the loop.
RECURSIVE EntryLoop(_, _, _, _)
EntryLoop(rows, est, allocation_div, in) ==
    IF rows = <<>> \/ est.slots <= 0 \/ est.budget_left <= 0 THEN est
    ELSE LET row == Head(rows)
             ticker == row.ticker
             exec_price == BuyExecPrice(row.price, in.slippage_bps)
             \* qty = int(allocation // exec_price), allocation = cash0 / n
             qty == allocation_div.cash \div (allocation_div.n * exec_price)
             gross == qty * exec_price
             fee == Fee(gross, in.fee_bps)
             total_cost == gross + fee
             order == [day |-> in.day, side |-> "BUY", ticker |-> ticker, qty |-> qty,
                       price |-> exec_price, reason |-> "top-score-entry", fee |-> fee,
                       run_id |-> in.run_id]
         IN  IF ticker \in HeldTickers(est.positions)
                \/ BelowEntryThreshold(row.score, in.entry_score_threshold)
                \/ qty <= 0
                \/ OverCash(total_cost, est.cash)
             THEN EntryLoop(Tail(rows), est, allocation_div, in)
             ELSE EntryLoop(Tail(rows),
                            [cash |-> est.cash - total_cost,
                             positions |-> Append(est.positions,
                                 [ticker |-> ticker, qty |-> qty, avg_price |-> exec_price]),
                             orders |-> Append(est.orders, order),
                             budget_left |-> est.budget_left - 1,
                             slots |-> est.slots - 1,
                             scores |-> Append(est.scores, row.score)],
                            allocation_div, in)

\* db.executemany of an INSERT into a table whose PRIMARY KEY is ticker: one
\* transaction; a repeated key raises IntegrityError and nothing is committed.
InsertRows(table, rows) ==
    LET all == table \o rows
        clash == \E i, j \in 1..Len(all) : i < j /\ all[i].ticker = all[j].ticker
    IN  IF clash THEN [ok |-> FALSE, table |-> table]
        ELSE [ok |-> TRUE, table |-> all]

\* (mutant: the DELETE is lost)
DeleteAll_kept(table) == table

\* db.execute("DELETE FROM <table>")
DeleteAll(table) == <<>>

\* _replace_positions: DELETE, then INSERT of the rows with qty > 0.
ReplacePositions(table, positions) ==
    InsertRows(DeleteAll(table), SelectSeq(positions, LAMBDA p : p.qty > 0))

\* (mutant: the orders already placed today are not subtracted)
BudgetLeft_ignoresToday(max_trades_per_day, trades_today) == Max(0, max_trades_per_day)

\* budget_left = max(0, max_trades_per_day - trades_today)
BudgetLeft(max_trades_per_day, trades_today) == Max(0, max_trades_per_day - trades_today)

\* cash, _ = _latest_account(); if cash <= 0 and trades_today == 0: cash = initial_cash
StartCash(latest_cash, trades_today, initial_cash) ==
    IF latest_cash <= 0 /\ trades_today = 0 THEN initial_cash ELSE latest_cash

\* run_paper_trading up to its store writes: what it decides from what it read.
RunPaperTrading(orders_tbl, positions_tbl, accounts_tbl, in) ==
    LET trades_today == DailyOrderCount(orders_tbl, in.day)
        budget_left == BudgetLeft(in.max_trades_per_day, trades_today)
        latest_cash == LatestAccountCash(accounts_tbl)
        cash0 == StartCash(latest_cash, trades_today, in.initial_cash)
        positions == LoadPositions(positions_tbl)
        price_map == PriceMap(in.market, in.fallback)
        keys == [i \in 1..Len(positions) |-> positions[i].ticker]
        afterExit == ExitPass(keys,
                              [cash |-> cash0, positions |-> positions, orders |-> <<>>,
                               budget_left |-> budget_left],
                              in.market, in)
        slots == Slots(in.max_positions, Len(afterExit.positions))
        est0 == [cash |-> afterExit.cash, positions |-> afterExit.positions,
                 orders |-> afterExit.orders, budget_left |-> afterExit.budget_left,
                 slots |-> slots, scores |-> <<>>]
        afterEntry ==
            IF slots > 0 /\ afterExit.budget_left > 0
            THEN EntryLoop(in.ranked, est0,
                           [cash |-> afterExit.cash,
                            n |-> Max(1, Min(slots, afterExit.budget_left))], in)
            ELSE est0
    IN  IF budget_left <= 0
        THEN [limit |-> TRUE, trades_today |-> trades_today, latest_cash |-> latest_cash,
              cash |-> cash0, positions |-> positions, orders |-> <<>>, scores |-> <<>>,
              held_after_exit |-> Len(positions),
              nav |-> MarkToMarket(cash0, positions, price_map)]
        ELSE [limit |-> FALSE, trades_today |-> trades_today, latest_cash |-> latest_cash,
              cash |-> afterEntry.cash, positions |-> afterEntry.positions,
              orders |-> afterEntry.orders, scores |-> afterEntry.scores,
              held_after_exit |-> Len(afterExit.positions),
              nav |-> MarkToMarket(afterEntry.cash, afterEntry.positions, price_map)]

-----------------------------------------------------------------------------
(* The paper ledger as a state machine: the hourly job calls run_paper_trading *)

NoCycle == [run_id |-> 0]

InitPaper ==
    \* db.init_db on an empty store: one paper-init account row, no position, no order
    /\ paper_orders = <<>>
    /\ paper_positions = <<>>
    /\ paper_accounts =
          <<[day |-> 1, cash |-> DefaultCash, nav |-> DefaultCash, note |-> "paper-init"]>>
    /\ paper_settings \in
          [initial_cash : {DefaultCash}, max_trades_per_day : TradeLimits,
           entry_score_threshold : EntryThresholds,
           max_positions : MaxPositions,
           rates : {[fee_bps |-> 0, slippage_bps |-> 0],
                    [fee_bps |-> 100, slippage_bps |-> 0],
                    [fee_bps |-> 100, slippage_bps |-> 100]}]
    /\ today = 1
    /\ cyc = NoCycle

\* The scenes that differ for a ledger holding the tickers of held: the sell
\* rule reads the features of held tickers only.
SceneChoices(scenes, held) ==
    {sc \in scenes :
        \A t \in Tickers : sc.market[t].return_1h = StopLossRet => t \in held}

\* The inputs of the call the hourly job makes in scene sc.
PaperInputs(sc) ==
    [run_id |-> Len(paper_accounts), day |-> today, ranked |-> sc.ranked,
     market |-> sc.market, fallback |-> sc.fallback,
     initial_cash |-> paper_settings.initial_cash,
     max_trades_per_day |-> paper_settings.max_trades_per_day,
     max_positions |-> paper_settings.max_positions,
     entry_score_threshold |-> paper_settings.entry_score_threshold,
     fee_bps |-> paper_settings.rates.fee_bps,
     slippage_bps |-> paper_settings.rates.slippage_bps]

\* One call of run_paper_trading, with its store writes:
\* executemany(paper_orders), _replace_positions, INSERT INTO paper_accounts.
PaperCycleOver(scenes) ==
    /\ Len(paper_accounts) <= MaxCycles
    /\ \E sc \in SceneChoices(scenes, HeldTickers(LoadPositions(paper_positions))) :
        \E res \in {RunPaperTrading(paper_orders, paper_positions, paper_accounts,
                                    PaperInputs(sc))} :
        \E rep \in {ReplacePositions(paper_positions, res.positions)} :
            /\ paper_orders' = paper_orders \o res.orders
            /\ paper_positions' = IF res.limit THEN paper_positions ELSE rep.table
            /\ paper_accounts' =
                  IF res.limit \/ rep.ok
                  THEN Append(paper_accounts,
                              [day |-> today, cash |-> res.cash, nav |-> res.nav,
                               note |-> IF res.limit THEN "limit-reached" ELSE "paper-run"])
                  ELSE paper_accounts
            /\ cyc' = [run_id |-> Len(paper_accounts),
                       limit |-> res.limit,
                       replaced |-> ~res.limit /\ rep.ok,
                       holdings |-> res.positions,
                       scores |-> res.scores,
                       below |-> {sc.ranked[i].ticker : i \in
                                    {j \in 1..Len(sc.ranked) :
                                        sc.ranked[j].score < paper_settings.entry_score_threshold}},
                       threshold |-> paper_settings.entry_score_threshold,
                       market_price |->
                           [t \in Tickers |->
                               IF t \in HeldTickers(res.positions) \/
                                  \E i \in 1..Len(res.orders) : res.orders[i].ticker = t
                               THEN sc.market[t].price ELSE NoPrice],
                       fallback_price |->
                           [t \in Tickers |->
                               IF t \in HeldTickers(res.positions)
                               THEN sc.fallback[t] ELSE NoPrice]]
    /\ UNCHANGED <<paper_settings, today>>

PaperCycle == PaperCycleOver(Scenes) /\ UNCHANGED <<liveVars, storeVars, outcomeVars, jobVars>>

\* Midnight passes: later cycles carry the next calendar date.
NextDay ==
    /\ today <= Len(paper_accounts) - 1
    /\ today + 1 \in Days
    /\ today' = today + 1
    /\ UNCHANGED <<paperVars, liveVars, storeVars, outcomeVars, jobVars>>

-----------------------------------------------------------------------------
(* src/live/executor.py *)

\* Settings (src/core/config.py defaults, except the trade limit and threshold)
LiveTradeLimits == {2}
LiveMaxPositions == 2            \* live_max_positions
LiveEntryThreshold == 75         \* max(live_entry_score_threshold, strategy threshold)
LiveCashReservePct == 1500       \* live_cash_reserve_pct = 0.15
LiveMaxOrderPct == 3000          \* live_max_order_pct = 0.30
LiveMinOrderKrw == 50000         \* live_min_order_krw
LiveMaxCapitalKrw == 1000000     \* live_max_capital_krw

\* What the broker account holds: every snapshot totals LiveAsset, a held ticker
\* is LiveQty shares quoted at LivePrice.
LiveAsset == 1000000
LivePrice == 100000
LiveQty == 5

BrokerRow(t, q) == [ticker |-> t, qty |-> q, eval_amount |-> q * LivePrice, pnl_pct |-> 0]

\* The "positions" lists inquire_balance may return; a provider other than kis.py
\* may list a ticker with qty 0, or list a ticker twice.
BrokerLists ==
    { <<>>,
      <<BrokerRow("A", LiveQty)>>,
      <<BrokerRow("A", LiveQty), BrokerRow("B", LiveQty)>>,
      <<BrokerRow("A", LiveQty), BrokerRow("B", 0)>>,
      <<BrokerRow("A", LiveQty), BrokerRow("A", LiveQty)>> }

RECURSIVE SumEval(_)
SumEval(ps) == IF ps = <<>> THEN 0 ELSE Head(ps).eval_amount + SumEval(Tail(ps))

BrokerError == [error |-> TRUE]

BrokerData(ps) ==
    [error |-> FALSE, cash |-> Max(0, LiveAsset - SumEval(ps)), total_eval |-> SumEval(ps),
     total_asset |-> LiveAsset, positions |-> ps]

\* The replies of provider.inquire_balance(): a balance, or an exception.
BrokerReplies == {BrokerError} \cup {BrokerData(ps) : ps \in BrokerLists}

\* The replies a live cycle is given at its three snapshots.
RepliesAt(note) ==
    IF note = "pre-run"
    THEN {BrokerError, BrokerData(<<>>), BrokerData(<<BrokerRow("A", LiveQty)>>),
          BrokerData(<<BrokerRow("A", LiveQty), BrokerRow("B", LiveQty)>>)}
    ELSE IF note = "mid-run"
    THEN {BrokerError, BrokerData(<<>>), BrokerData(<<BrokerRow("A", LiveQty)>>)}
    ELSE {BrokerError, BrokerData(<<BrokerRow("A", LiveQty)>>)}

\* (mutant: live_auto_start overrides a stored "0")
GetLiveTradingEnabled_autoStartWins(raw, default_on) ==
    IF raw = "unset" \/ default_on
    THEN [active |-> default_on, raw |-> IF default_on THEN "1" ELSE raw]
    ELSE [active |-> raw = "1", raw |-> raw]

\* get_live_trading_enabled: the stored switch, or live_auto_start when unset
\* (storing "1" when it starts the switch).
GetLiveTradingEnabled(raw, default_on) ==
    IF raw = "unset"
    THEN [active |-> default_on, raw |-> IF default_on THEN "1" ELSE raw]
    ELSE [active |-> raw = "1", raw |-> raw]

\* _replace_live_positions: DELETE, then INSERT of the rows with qty > 0 and a ticker.
ReplaceLivePositions(table, positions) ==
    LET rows == SelectSeq(positions, LAMBDA p : p.qty > 0 /\ p.ticker # "")
    IN  InsertRows(DeleteAll(table), [i \in 1..Len(rows) |->
                                        [ticker |-> rows[i].ticker, qty |-> rows[i].qty]])

\* sync_live_snapshot: inquire_balance, INSERT INTO live_accounts, replace
\* live_positions.  raised: the call ended with an exception.
SyncLiveSnapshot(accounts, positions_tbl, data, day, note) ==
    IF data.error
    THEN [raised |-> TRUE, accounts |-> accounts, positions |-> positions_tbl,
          sync |-> [called |-> TRUE, completed |-> FALSE, positions |-> <<>>,
                    replaced_rows |-> 0]]
    ELSE LET rep == ReplaceLivePositions(positions_tbl, data.positions)
         IN  [raised |-> ~rep.ok,
              accounts |-> Append(accounts, [day |-> day, total_asset |-> data.total_asset,
                                             note |-> note]),
              positions |-> rep.table,
              sync |-> [called |-> TRUE, completed |-> rep.ok, positions |-> data.positions,
                        replaced_rows |-> Len(positions_tbl)]]

\* _daily_live_order_count
DailyLiveOrderCount(orders, day) ==
    Cardinality({i \in 1..Len(orders) : orders[i].day = day})

\* _daily_live_order_stats
DailyLiveOrderStats(orders, day) ==
    [failed |-> Cardinality({i \in 1..Len(orders) :
                                orders[i].day = day /\ orders[i].status = "failed"}),
     total |-> DailyLiveOrderCount(orders, day)]

Clamp(x, lo, hi) == Max(lo, Min(hi, x))

\* What _build_risk_overlay derives from the account history and the unrealized
\* profit: risk_off is its first test, risk_on the day_return and unrealized_ret
\* part of its second.
RiskConds ==
    { [risk_off |-> FALSE, risk_on |-> FALSE],
      [risk_off |-> TRUE, risk_on |-> FALSE] }

\* _build_risk_overlay; scales and reserve in units of 1/10000.
BuildRiskOverlay(stats, snapshot, base_threshold, cond) ==
    LET fail_low == stats.total = 0 \/ stats.failed * 10 < stats.total * 3
        fail_heavy == stats.total >= 3 /\ stats.failed * 10 >= stats.total * 6
        cash_ratio == IF snapshot.total_asset > 0
                      THEN (snapshot.cash * 100) \div (snapshot.total_asset \div 100)
                      ELSE 0
        cash_low == cash_ratio * 10 < LiveCashReservePct * 7
        offensive == ~cond.risk_off /\ cond.risk_on /\ fail_low
        add1 == IF cond.risk_off THEN 5 ELSE IF offensive THEN -1 ELSE 0
        os1 == IF cond.risk_off THEN 5500 ELSE IF offensive THEN 11000 ELSE 10000
        ps1 == IF cond.risk_off THEN 7000 ELSE IF offensive THEN 11000 ELSE 10000
        rs1 == IF cond.risk_off THEN 500 ELSE 0
        add2 == IF fail_heavy THEN add1 + 2 ELSE add1
        os2 == IF fail_heavy THEN (os1 * 75) \div 100 ELSE os1
        rs2 == IF fail_heavy THEN rs1 + 300 ELSE rs1
        add3 == IF cash_low THEN add2 + 2 ELSE add2
        os3 == IF cash_low THEN (os2 * 70) \div 100 ELSE os2
        rs3 == IF cash_low THEN rs2 + 200 ELSE rs2
    IN  [mode |-> IF cond.risk_off \/ fail_heavy THEN "defensive"
                  ELSE IF offensive THEN "offensive" ELSE "normal",
         effective_threshold |-> Clamp(base_threshold + add3, 40, 95),
         order_scale |-> Clamp(os3, 3500, 13000),
         position_scale |-> Clamp(ps1, 5000, 12000),
         reserve_pct |-> Clamp(LiveCashReservePct + rs3, 0, 8000)]

\* amount * fraction, the fraction in units of 1/10000
Scaled(amount, fraction) == ((amount \div 100) * fraction) \div 100

\* (mutant: no cash is held in reserve)
CalcBuyBudget_noReserve(cash_now, total_asset, used_capital, capital_cap, reserve_pct) ==
    IF capital_cap > 0
    THEN Max(0, Min(cash_now, Max(0, capital_cap - used_capital)))
    ELSE Max(0, cash_now)

\* _calc_buy_budget
CalcBuyBudget(cash_now, total_asset, used_capital, capital_cap, reserve_pct) ==
    LET reserve_cash == Max(0, Scaled(total_asset, Max(0, reserve_pct)))
        spendable_cash == Max(0, cash_now - reserve_cash)
    IN  IF capital_cap > 0
        THEN Max(0, Min(spendable_cash, Max(0, capital_cap - used_capital)))
        ELSE Max(0, spendable_cash)

\* _sell_rule of the executor; returns and drawdown in 1/10000, flow_score in
\* tenths, score in points.
SellRuleLive(ret_1h, drawdown_20, flow, score, pnl_pct) ==
    IF pnl_pct <= -800 THEN [do_sell |-> TRUE, reason |-> "hard_stop_pnl"]
    ELSE IF ret_1h <= StopLossRet THEN [do_sell |-> TRUE, reason |-> "stop_loss_1h"]
    ELSE IF drawdown_20 < -1000 THEN [do_sell |-> TRUE, reason |-> "drawdown_break"]
    ELSE IF flow < -6 /\ score < 45 THEN [do_sell |-> TRUE, reason |-> "flow_reversal"]
    ELSE IF (ret_1h >= 700 /\ flow < 0) \/ (pnl_pct >= 1200 /\ flow < 2)
    THEN [do_sell |-> TRUE, reason |-> "take_profit_fade"]
    ELSE [do_sell |-> FALSE, reason |-> ""]

\* The same on a market row without flow_score and score, both read as 0.0.
LiveSellRule(row, pos) ==
    SellRuleLive(row.return_1h, row.drawdown_20, 0, 0, pos.pnl_pct)

\* _insert_live_order
InsertLiveOrder(orders, day, side, ticker, qty, status, run_id) ==
    Append(orders, [day |-> day, side |-> side, ticker |-> ticker, qty |-> qty,
                    status |-> status, run_id |-> run_id])

\* (mutant: a failed order does not use up the budget)
BudgetAfterOrder_failedFree(budget_left, status) ==
    IF status = "failed" THEN budget_left ELSE budget_left - 1

\* budget_left -= 1, after every order row written
BudgetAfterOrder(budget_left, status) == budget_left - 1

\* The market_state rows the exit pass can tell apart: a listed ticker has no row,
\* or a row on which the sell rule fires.
LiveMarketsFor(ps) ==
    {MarketOf(LivePrice, cells) : cells \in
        {c \in [Tickers -> {"none", "sell"}] : \A t \in Tickers :
            c[t] # "none" => \E i \in 1..Len(ps) : ps[i].ticker = t}}

\* ranked_entries of a live cycle: rows sorted by score descending.
LiveRanked ==
    LET Cand == {[ticker |-> t, score |-> sc, price |-> LivePrice] : t \in Tickers, sc \in Scores}
    IN  {<<>>} \cup {<<c>> : c \in Cand}
        \cup {cd \in Cand \X Cand :
                /\ cd[1].ticker # cd[2].ticker
                /\ cd[1].score >= cd[2].score
                /\ cd[1].score = cd[2].score => cd[1].ticker = "A"}

-----------------------------------------------------------------------------
(* The live ledger as a state machine: execute_live_trading, step by broker call *)

NoWork == [loop |-> "none"]

\* summary["cash"], summary["total_asset"], summary["positions"]; absent before
\* the first snapshot of the cycle.
NoReport == [cash |-> -1, total_asset |-> -1, positions |-> -1]

ReportOf(snap) ==
    [cash |-> snap.cash, total_asset |-> snap.total_asset, positions |-> Len(snap.positions)]

NoRun ==
    [pc |-> "idle", run_id |-> 0, day |-> 0, status |-> "none", checked |-> FALSE,
     trades_today |-> 0, budget_left |-> 0, calls |-> 0, submitted |-> 0, failed |-> 0,
     rejected |-> 0, reported |-> NoReport, work |-> NoWork]

NoSync == [called |-> FALSE, completed |-> FALSE, positions |-> <<>>, replaced_rows |-> 0]

LiveSettingsOf(enable, auto_start, order_api) ==
    [live_enable |-> enable, live_auto_start |-> auto_start, has_order_api |-> order_api,
     live_max_trades_per_day |-> CHOOSE n \in LiveTradeLimits : TRUE,
     live_allow_sell |-> TRUE, live_retry_on_fund_error |-> TRUE]

\* init_db creates the live tables empty; the switch is not stored yet.
LiveStore ==
    /\ live_orders = <<>>
    /\ live_positions = <<>>
    /\ live_accounts = <<>>
    /\ live_trade_state = "unset"
    /\ live_run = NoRun
    /\ live_sync = NoSync

LiveIdle == LiveStore /\ live_settings = LiveSettingsOf(FALSE, FALSE, TRUE)

InitLive ==
    /\ LiveStore
    /\ live_settings \in {LiveSettingsOf(TRUE, TRUE, TRUE), LiveSettingsOf(TRUE, FALSE, TRUE),
                          LiveSettingsOf(FALSE, FALSE, TRUE), LiveSettingsOf(TRUE, TRUE, FALSE)}

\* execute_live_trading from its call to the start of the exit pass: the gates,
\* the pre-run snapshot, the budget check, the risk overlay.
LiveStart ==
    /\ live_run.pc = "idle"
    /\ live_run.run_id < MaxLiveRuns
    /\ LET summary == [NoRun EXCEPT !.run_id = live_run.run_id + 1, !.day = today,
                                    !.status = "disabled"]
           en == GetLiveTradingEnabled(live_trade_state, live_settings.live_auto_start)
       IN  IF ~live_settings.live_enable
           THEN /\ live_run' = [summary EXCEPT !.status = "live_env_off"]
                /\ UNCHANGED <<live_accounts, live_positions, live_sync, live_trade_state>>
           ELSE IF ~live_settings.has_order_api
           THEN /\ live_run' = [summary EXCEPT !.status = "provider_unsupported"]
                /\ UNCHANGED <<live_accounts, live_positions, live_sync, live_trade_state>>
           ELSE
             /\ live_trade_state' = en.raw
             /\ \E data \in RepliesAt("pre-run") :
                 LET s == SyncLiveSnapshot(live_accounts, live_positions, data, today, "pre-run")
                     trades_today == DailyLiveOrderCount(live_orders, today)
                     budget_left == Max(0, live_settings.live_max_trades_per_day - trades_today)
                 IN  /\ live_accounts' = s.accounts
                     /\ live_positions' = s.positions
                     /\ live_sync' = s.sync
                     /\ IF s.raised
                        THEN live_run' = [summary EXCEPT !.status = "balance_error"]
                        ELSE IF ~en.active
                        THEN live_run' = [summary EXCEPT !.status = "standby",
                                                         !.reported = ReportOf(data)]
                        ELSE IF budget_left <= 0
                        THEN live_run' = [summary EXCEPT !.status = "daily_limit_reached",
                                                         !.reported = ReportOf(data),
                                                         !.checked = TRUE,
                                                         !.trades_today = trades_today]
                        ELSE \E cond \in RiskConds, market \in LiveMarketsFor(data.positions) :
                               live_run' =
                                 [summary EXCEPT
                                    !.pc = "exit", !.status = "running", !.checked = TRUE,
                                    !.reported = ReportOf(data),
                                    !.trades_today = trades_today,
                                    !.budget_left = budget_left,
                                    !.work = [loop |-> "exit", market |-> market,
                                              positions_now |-> data.positions,
                                              snap |-> data,
                                              risk |-> BuildRiskOverlay(
                                                  DailyLiveOrderStats(live_orders, today),
                                                  data, LiveEntryThreshold, cond)]]
    /\ UNCHANGED <<live_orders, live_settings, today, paperVars, storeVars, outcomeVars, jobVars>>

\* for p in positions_now: if budget_left <= 0: break
ExitContinues(run) ==
    /\ live_settings.live_allow_sell
    /\ run.work.positions_now # <<>>
    /\ run.budget_left > 0

\* One iteration of the exit pass: a position is skipped, or sold with one
\* place_cash_order call that returns or raises.
LiveExitStep ==
    /\ live_run.pc = "exit"
    /\ ExitContinues(live_run)
    /\ LET w == live_run.work
           p == Head(w.positions_now)
           row == w.market[p.ticker]
           skip == \/ p.ticker = ""
                   \/ ~HasRow(w.market, p.ticker)
                   \/ ~LiveSellRule(row, p).do_sell
                   \/ p.qty <= 0
                   \/ row.price <= 0
       IN  IF skip
           THEN /\ live_run' = [live_run EXCEPT !.work.positions_now = Tail(@)]
                /\ UNCHANGED live_orders
           ELSE \E outcome \in {"ok", "error"} :
                 LET status == IF outcome = "ok" THEN "submitted" ELSE "failed"
                 IN  /\ live_orders' = InsertLiveOrder(live_orders, live_run.day, "SELL",
                                                       p.ticker, p.qty, status, live_run.run_id)
                     /\ live_run' =
                          [live_run EXCEPT
                             !.work.positions_now = Tail(@),
                             !.calls = @ + 1,
                             !.rejected = IF outcome = "error" THEN @ + 1 ELSE @,
                             !.submitted = IF status = "submitted" THEN @ + 1 ELSE @,
                             !.failed = IF status = "failed" THEN @ + 1 ELSE @,
                             !.budget_left = BudgetAfterOrder(@, status)]
    /\ UNCHANGED <<live_accounts, live_positions, live_sync, live_trade_state,
                   live_settings, today, paperVars, storeVars, outcomeVars, jobVars>>

\* The state of the entry pass after the mid-run snapshot.
EntryWork(run, snap_mid, ranked) ==
    LET risk == run.work.risk
        held == {snap_mid.positions[i].ticker : i \in 1..Len(snap_mid.positions)} \ {""}
        buy_budget == CalcBuyBudget(snap_mid.cash, snap_mid.total_asset,
                                    SumEval(snap_mid.positions), Max(0, LiveMaxCapitalKrw),
                                    risk.reserve_pct)
        max_pos_effective ==
            Max(1, (LiveMaxPositions * risk.position_scale + 5000) \div 10000)
    IN  [loop |-> "entry", ranked |-> ranked, total_asset |-> snap_mid.total_asset,
         held |-> held, buy_budget |-> buy_budget,
         \* summary["buy_budget"], summary["max_positions_effective"]
         summary_buy_budget |-> buy_budget,
         max_pos_effective |-> max_pos_effective,
         slots |-> Slots(max_pos_effective, Cardinality(held)),
         threshold |-> risk.effective_threshold, order_scale |-> risk.order_scale]

\* if budget_left > 0 and buy_budget > 0 and slots > 0 and not ranked_entries.empty,
\* and the break test at the top of every iteration.
EntryContinues(run) ==
    /\ run.work.ranked # <<>>
    /\ run.work.slots > 0
    /\ run.budget_left > 0
    /\ run.work.buy_budget > 0

\* try: snap_mid = sync_live_snapshot(...)  except Exception: snap_mid = snap_pre
SnapMid_stale(raised, snap_pre, data) == snap_pre
SnapMid(raised, snap_pre, data) == IF raised THEN snap_pre ELSE data

\* The mid-run snapshot between the passes; snap_mid = snap_pre when it raises.
LiveMidSync ==
    /\ live_run.pc = "exit"
    /\ ~ExitContinues(live_run)
    /\ \E data \in RepliesAt("mid-run") :
        LET s == SyncLiveSnapshot(live_accounts, live_positions, data, live_run.day, "mid-run")
            snap_mid == SnapMid(s.raised, live_run.work.snap, data)
            probe == [live_run EXCEPT !.work = EntryWork(live_run, snap_mid, <<"row">>)]
        IN  /\ live_accounts' = s.accounts
            /\ live_positions' = s.positions
            /\ live_sync' = s.sync
            /\ \E ranked \in IF EntryContinues(probe) THEN LiveRanked ELSE {<<>>} :
                  live_run' = [live_run EXCEPT
                                 !.pc = "entry",
                                 !.work = EntryWork(live_run, snap_mid, ranked)]
    /\ UNCHANGED <<live_orders, live_trade_state, live_settings, today, paperVars, storeVars, outcomeVars, jobVars>>

\* What one place_cash_order BUY attempt can do: return; raise a funding error and
\* return or raise on the retry; raise another error.
BuyOutcomes == {"ok", "fund_retry_ok", "fund_retry_error", "error"}

\* retry_qty, from the buyable quantity the broker reports (0 when it reports none)
RetryQty(qty, retry_cap) ==
    IF retry_cap > 0 THEN Min(retry_cap, Max(1, (qty * 6) \div 10))
    ELSE Max(1, qty \div 2)

\* The try/except around the BUY order: the first place_cash_order call, the
\* retry after a funding error, and what is recorded.
PlaceBuy(qty, outcome, retry_on_fund_error, retry_cap) ==
    LET fund == outcome \in {"fund_retry_ok", "fund_retry_error"}
        retry_qty == RetryQty(qty, retry_cap)
        retried == fund /\ retry_on_fund_error /\ retry_qty < qty /\ retry_qty > 0
        status == IF outcome = "ok" \/ (retried /\ outcome = "fund_retry_ok")
                  THEN "submitted" ELSE "failed"
    IN  [fund |-> fund, retried |-> retried, retry_qty |-> retry_qty, status |-> status,
         final_qty |-> IF retried /\ status = "submitted" THEN retry_qty ELSE qty,
         calls |-> IF retried THEN 2 ELSE 1,
         rejected |-> outcome = "error" \/ (fund /\ ~retried)
                         \/ (retried /\ outcome = "fund_retry_error")]

\* One iteration of the entry pass.
LiveEntryStep ==
    /\ live_run.pc = "entry"
    /\ EntryContinues(live_run)
    /\ LET w == live_run.work
           row == Head(w.ranked)
           remaining == Max(1, Min(w.slots, live_run.budget_left))
           per_slot_budget == w.buy_budget \div remaining
           max_order_value == Max(LiveMinOrderKrw, Scaled(w.total_asset, LiveMaxOrderPct))
           target_notional == Min(Min(Scaled(per_slot_budget, w.order_scale), max_order_value),
                                  w.buy_budget)
           qty == target_notional \div row.price
           skip == \/ row.ticker = "" \/ row.ticker \in w.held
                   \/ row.score < w.threshold
                   \/ row.price <= 0
                   \/ target_notional < LiveMinOrderKrw
                   \/ qty <= 0
       IN  IF skip
           THEN /\ live_run' = [live_run EXCEPT !.work.ranked = Tail(@)]
                /\ UNCHANGED live_orders
           ELSE \E outcome \in BuyOutcomes :
                 LET \* the provider has no inquire_buying_power: retry_cap = 0
                     placed == PlaceBuy(qty, outcome, live_settings.live_retry_on_fund_error, 0)
                     fund == placed.fund
                     status == placed.status
                     final_qty == placed.final_qty
                     est_cost == final_qty * row.price
                     spent == IF status = "submitted"
                              THEN Max(0, w.buy_budget - est_cost) ELSE w.buy_budget
                 IN  /\ live_orders' = InsertLiveOrder(live_orders, live_run.day, "BUY",
                                                       row.ticker, final_qty, status,
                                                       live_run.run_id)
                     /\ live_run' =
                          [live_run EXCEPT
                             !.work.ranked = Tail(@),
                             !.work.held = IF status = "submitted" THEN @ \cup {row.ticker} ELSE @,
                             !.work.slots = IF status = "submitted" THEN @ - 1 ELSE @,
                             \* after a funding error: buy_budget * 0.6
                             !.work.buy_budget = IF fund THEN Max(0, (spent * 6) \div 10) ELSE spent,
                             !.calls = @ + placed.calls,
                             !.rejected = IF placed.rejected THEN @ + 1 ELSE @,
                             !.submitted = IF status = "submitted" THEN @ + 1 ELSE @,
                             !.failed = IF status = "failed" THEN @ + 1 ELSE @,
                             !.budget_left = BudgetAfterOrder(@, status)]
    /\ UNCHANGED <<live_accounts, live_positions, live_sync, live_trade_state,
                   live_settings, today, paperVars, storeVars, outcomeVars, jobVars>>

\* summary["status"] of a cycle that went through both passes
FinalStatus_noPartial(submitted, failed) ==
    IF submitted > 0 THEN "orders_submitted"
    ELSE IF failed > 0 THEN "all_failed"
    ELSE "no_order"
FinalStatus(submitted, failed) ==
    IF submitted > 0 /\ failed = 0 THEN "orders_submitted"
    ELSE IF submitted > 0 /\ failed > 0 THEN "partial_failed"
    ELSE IF failed > 0 THEN "all_failed"
    ELSE "no_order"

\* The post-run snapshot (an exception is swallowed) and the return.
LivePostSync ==
    /\ live_run.pc = "entry"
    /\ ~EntryContinues(live_run)
    /\ \E data \in RepliesAt("post-run") :
        LET s == SyncLiveSnapshot(live_accounts, live_positions, data, live_run.day, "post-run")
        IN  /\ live_accounts' = s.accounts
            /\ live_positions' = s.positions
            /\ live_sync' = s.sync
            /\ live_run' = [live_run EXCEPT
                              !.pc = "idle", !.work = NoWork, !.budget_left = 0,
                              !.reported = IF s.raised THEN @ ELSE ReportOf(data),
                              !.status = FinalStatus(live_run.submitted, live_run.failed)]
    /\ UNCHANGED <<live_orders, live_trade_state, live_settings, today, paperVars, storeVars, outcomeVars, jobVars>>

\* set_live_trading_enabled, from the chat commands that start and stop trading
SetLiveTradingEnabled ==
    /\ live_run.pc = "idle"
    /\ \E enabled \in BOOLEAN :
          /\ live_trade_state' = (IF enabled THEN "1" ELSE "0")
          /\ live_trade_state' # live_trade_state
    /\ UNCHANGED <<live_orders, live_positions, live_accounts, live_settings, live_run,
                   live_sync, today, paperVars, storeVars, outcomeVars, jobVars>>

\* Midnight passes between two live cycles.
LiveMidnight ==
    /\ live_run.pc = "idle"
    /\ DailyLiveOrderCount(live_orders, today) > 0
    /\ today + 1 \in Days
    /\ today' = today + 1
    /\ UNCHANGED <<paperVars, liveVars, storeVars, outcomeVars, jobVars>>

\* sync_live_snapshot, from the chat command that reports the live status
ChatLiveStatus ==
    /\ Len(live_accounts) < MaxSnapshots
    /\ \E data \in BrokerReplies :
        LET s == SyncLiveSnapshot(live_accounts, live_positions, data, today, "chat")
        IN  /\ live_accounts' = s.accounts
            /\ live_positions' = s.positions
            /\ live_sync' = s.sync
    /\ UNCHANGED <<live_orders, live_trade_state, live_settings, live_run, today, paperVars, storeVars, outcomeVars, jobVars>>

-----------------------------------------------------------------------------
(* src/scoring/schema.py, src/scoring/weights.py: the weights table *)

\* A weight vector is kept exactly: the weight of key k is w[k] / den.
DefaultWeights ==
    [w |-> [money_value_surge |-> 18, flow_score |-> 14, atr_regime |-> 10,
            sector_breadth |-> 6, sector_rotation |-> 7, buzz_score |-> 3,
            rs_5 |-> 9, momentum_persistence |-> 7, drawdown_20 |-> 5,
            volatility_shock |-> 2, trend_strength |-> 8, breakout_20 |-> 5,
            range_position_20 |-> 3, efficiency_8 |-> 3],
     den |-> 100]

Keys == DOMAIN DefaultWeights.w

RECURSIVE SumOver(_, _)
SumOver(f, S) ==
    IF S = {} THEN 0
    ELSE LET k == CHOOSE x \in S : TRUE IN f[k] + SumOver(f, S \ {k})

Abs(x) == IF x < 0 THEN -x ELSE x

RECURSIVE Gcd(_, _)
Gcd(a, b) == IF b = 0 THEN Abs(a) ELSE Gcd(Abs(b), Abs(a) % Abs(b))

RECURSIVE GcdOver(_, _)
GcdOver(f, S) ==
    IF S = {} THEN 0
    ELSE LET k == CHOOSE x \in S : TRUE IN Gcd(f[k], GcdOver(f, S \ {k}))

\* SELECT ... WHERE active=1, in version (or state_id) order
ActiveRows(table) == SelectSeq(table, LAMBDA r : r.active)

\* load_active_weights
LoadActiveWeights(table) ==
    LET act == ActiveRows(table)
    IN  IF act = <<>> THEN DefaultWeights ELSE act[Len(act)].weights

\* UPDATE <table> SET active=0 WHERE active=1
DeactivateAll(table) == [i \in 1..Len(table) |-> [table[i] EXCEPT !.active = FALSE]]

\* INSERT INTO weights(ts_kst, weights_json, active) VALUES (?,?,1)
InsertWeights(table, vec) ==
    Append(table, [version |-> Len(table) + 1, active |-> TRUE, weights |-> vec])

\* activate_new_weights: the two statements, each committed on its own
ActivateNewWeights(table, vec) == InsertWeights(DeactivateAll(table), vec)

-----------------------------------------------------------------------------
(* src/feedback/weight_tuner.py *)

\* Correlations, signals and deltas are in thousandths.
Mille == 1000
MaxDelta == 30          \* max_delta = 0.03
SignalGain == 12        \* signal * 0.012
WarmupDays == 14        \* warmup_days
MinSamples == 60        \* min_samples

\* What the two COUNT queries of tune_weights return.
DayCounts == {10, 14}
SampleSizes == {59, 60}

\* What the outcome history says about the keys: the keys with enough distinct
\* samples to be measured, and for each its rank correlation and spread signal.
Measured(keys, direction) ==
    [measured |-> keys,
     ic |-> [k \in Keys |-> direction * Mille],
     spread_signal |-> [k \in Keys |-> direction * Mille]]

Adjustments ==
    {Measured({}, 0), Measured(Keys, 1), Measured(Keys, -1),
     Measured({"volatility_shock"}, -1), Measured({"money_value_surge"}, 1)}

\* A caller's base vector with every weight 0.
ZeroWeights == [w |-> [k \in Keys |-> 0], den |-> 1]

\* signal = 0.7 * ic + 0.3 * spread_signal
Signal(ic, spread_signal) == (7 * ic + 3 * spread_signal) \div 10

\* delta = max(-max_delta, min(max_delta, signal * 0.012))
Delta(signal, max_delta) == Clamp((signal * SignalGain) \div Mille, -max_delta, max_delta)

ClampAtZero_off(x) == x

\* max(0.0, ...)
ClampAtZero(x) == Max(0, x)

\* updated: the adjusted weights, as numerators over Mille * base.den
AdjustedWeights(base, adj, max_delta) ==
    [k \in Keys |->
        IF k \in adj.measured
        THEN ClampAtZero(Mille * base.w[k]
                         + Delta(Signal(adj.ic[k], adj.spread_signal[k]), max_delta) * base.den)
        ELSE Mille * base.w[k]]

\* normalized = {k: v / s}
Normalize(updated) ==
    LET s == SumOver(updated, Keys)
        g == GcdOver(updated, Keys)
    IN  [w |-> [k \in Keys |-> updated[k] \div g], den |-> s \div g]

\* The status strings, with the number their format inserts.
Status(text, n) == [text |-> text, n |-> n]

BelowWarmup_never(n_days, warmup_days) == FALSE

\* if n_days < warmup_days
BelowWarmup(n_days, warmup_days) == n_days < warmup_days

NotAdjusted == [done |-> FALSE, sum |-> 0]

\* tune_weights up to its call of activate_new_weights: what it returns, and
\* whether it activates the returned vector.  The "OFF(no-ret)" return needs a
\* sample without any ret value, which fill_outcomes never stores.
TuneWeights(base_weights, n_days, n_rows, adj) ==
    IF BelowWarmup(n_days, WarmupDays)
    THEN [returned |-> base_weights, activates |-> FALSE,
          status |-> Status("OFF(warmup<{warmup_days}d)", WarmupDays),
          adjusted |-> NotAdjusted]
    ELSE IF n_rows < MinSamples
    THEN [returned |-> base_weights, activates |-> FALSE,
          status |-> Status("OFF(sample<{min_samples})", MinSamples),
          adjusted |-> NotAdjusted]
    ELSE LET updated == AdjustedWeights(base_weights, adj, MaxDelta)
             s == SumOver(updated, Keys)
         IN  IF s <= 0
             THEN [returned |-> base_weights, activates |-> FALSE,
                   status |-> Status("OFF(invalid-sum)", 0),
                   adjusted |-> [done |-> TRUE, sum |-> s]]
             ELSE [returned |-> Normalize(updated), activates |-> TRUE,
                   status |-> Status("ON", 0),
                   adjusted |-> [done |-> TRUE, sum |-> s]]

-----------------------------------------------------------------------------
(* src/feedback/rebalance.py *)

\* REGIME_PARAMS, position_scale in hundredths
RegimeParams(regime) ==
    CASE regime = "CONSERVATIVE" -> [entry_score_threshold |-> 62, position_scale |-> 60]
      [] regime = "NEUTRAL"      -> [entry_score_threshold |-> 55, position_scale |-> 100]
      [] regime = "AGGRESSIVE"   -> [entry_score_threshold |-> 50, position_scale |-> 125]

\* load_strategy_state
LoadStrategyState(table) ==
    LET act == ActiveRows(table)
        p == RegimeParams("NEUTRAL")
    IN  IF act = <<>>
        THEN [regime |-> "NEUTRAL", entry_score_threshold |-> p.entry_score_threshold,
              position_scale |-> p.position_scale, note |-> "default"]
        ELSE LET row == act[Len(act)]
             IN  [regime |-> row.regime, entry_score_threshold |-> row.entry_score_threshold,
                  position_scale |-> row.position_scale, note |-> row.note]

\* The nightly statistics: win_rate_1d in thousandths, avg_ret_1d in 1/10000.
StatsChoices ==
    {[n |-> 20, win_rate_1d |-> 580, avg_ret_1d |-> 20, paper_pnl_day |-> 0],
     [n |-> 20, win_rate_1d |-> 450, avg_ret_1d |-> 0, paper_pnl_day |-> 0],
     [n |-> 19, win_rate_1d |-> 580, avg_ret_1d |-> 20, paper_pnl_day |-> 0]}

\* _decide_regime
DecideRegime_noSampleGate(stats) ==
    IF stats.win_rate_1d >= 580 /\ stats.avg_ret_1d >= 20 /\ stats.paper_pnl_day >= 0
    THEN [regime |-> "AGGRESSIVE", reason |-> "strong edge"]
    ELSE IF \/ stats.win_rate_1d <= 450
            \/ stats.avg_ret_1d <= -15
            \/ stats.paper_pnl_day < 0
    THEN [regime |-> "CONSERVATIVE", reason |-> "drawdown control"]
    ELSE [regime |-> "NEUTRAL", reason |-> "balanced"]
DecideRegime(stats) ==
    IF stats.n >= 20 /\ stats.win_rate_1d >= 580 /\ stats.avg_ret_1d >= 20
       /\ stats.paper_pnl_day >= 0
    THEN [regime |-> "AGGRESSIVE", reason |-> "strong edge"]
    ELSE IF stats.n >= 20 /\ (\/ stats.win_rate_1d <= 450
                              \/ stats.avg_ret_1d <= -15
                              \/ stats.paper_pnl_day < 0)
    THEN [regime |-> "CONSERVATIVE", reason |-> "drawdown control"]
    ELSE [regime |-> "NEUTRAL", reason |-> "balanced"]

\* INSERT INTO strategy_state(...) VALUES (?,?,?,?,?,1)
InsertState(table, regime, note) ==
    Append(table, [state_id |-> Len(table) + 1, active |-> TRUE, regime |-> regime,
                   entry_score_threshold |-> RegimeParams(regime).entry_score_threshold,
                   position_scale |-> RegimeParams(regime).position_scale,
                   note |-> note])

-----------------------------------------------------------------------------
(* The strategy store as a state machine *)

NoTune ==
    [calls |-> 0, status |-> Status("none", 0), base |-> DefaultWeights,
     returned |-> DefaultWeights, n_days |-> 0, n_rows |-> 0, adjusted |-> NotAdjusted]

WriterIdle(calls) ==
    [pc |-> "idle", weights |-> DefaultWeights, regime |-> "NEUTRAL", note |-> "", calls |-> calls]

\* The store after init_db has run on an empty database.
StoreIdle ==
    /\ weights = InsertWeights(<<>>, DefaultWeights)
    /\ strategy_state = InsertState(<<>>, "NEUTRAL", "init")
    /\ writer = WriterIdle(0)
    /\ tune = NoTune

\* tune_weights as the nightly job calls it, or as a caller with a zero base
\* vector does: one call from its queries to its return.
NightlyTune ==
    /\ tune.calls < MaxTuneRuns
    /\ \E base \in {LoadActiveWeights(weights), ZeroWeights},
          n_days \in DayCounts, n_rows \in SampleSizes, adj \in Adjustments :
          LET r == TuneWeights(base, n_days, n_rows, adj)
          IN  /\ weights' = IF r.activates THEN ActivateNewWeights(weights, r.returned)
                            ELSE weights
              /\ tune' = [calls |-> tune.calls + 1, status |-> r.status, base |-> base,
                          returned |-> r.returned, n_days |-> n_days, n_rows |-> n_rows,
                          adjusted |-> r.adjusted]
    /\ UNCHANGED <<strategy_state, writer, today, paperVars, liveVars, outcomeVars, jobVars>>

\* The nightly tune_weights up to the first statement of activate_new_weights:
\* the active rows are deactivated and that is committed.
TuneDeactivate ==
    /\ writer.pc = "idle"
    /\ writer.calls < MaxSupersedes
    /\ \E adj \in Adjustments :
          LET r == TuneWeights(LoadActiveWeights(weights), WarmupDays, MinSamples, adj)
          IN  /\ r.activates
              /\ weights' = DeactivateAll(weights)
              /\ writer' = [WriterIdle(writer.calls + 1) EXCEPT
                               !.pc = "weights_insert", !.weights = r.returned]
    /\ UNCHANGED <<strategy_state, tune, today, paperVars, liveVars, outcomeVars, jobVars>>

\* The second statement of activate_new_weights.
TuneInsert ==
    /\ writer.pc = "weights_insert"
    /\ weights' = InsertWeights(weights, writer.weights)
    /\ writer' = WriterIdle(writer.calls)
    /\ UNCHANGED <<strategy_state, tune, today, paperVars, liveVars, outcomeVars, jobVars>>

\* update_strategy_state up to its UPDATE: nothing is written when the decided
\* regime is the current one.
StateDeactivate ==
    /\ writer.pc = "idle"
    /\ writer.calls < MaxSupersedes
    /\ \E stats \in StatsChoices :
          LET current == LoadStrategyState(strategy_state)
              d == DecideRegime(stats)
              p == RegimeParams(d.regime)
              changed == \/ current.regime # d.regime
                         \/ current.entry_score_threshold # p.entry_score_threshold
                         \/ current.position_scale # p.position_scale
          IN  IF changed
              THEN /\ strategy_state' = DeactivateAll(strategy_state)
                   /\ writer' = [WriterIdle(writer.calls + 1) EXCEPT
                                    !.pc = "state_insert", !.regime = d.regime,
                                    !.note = d.reason]
              ELSE /\ strategy_state' = strategy_state
                   /\ writer' = WriterIdle(writer.calls + 1)
    /\ UNCHANGED <<weights, tune, today, paperVars, liveVars, outcomeVars, jobVars>>

\* The INSERT of update_strategy_state.
StateInsert ==
    /\ writer.pc = "state_insert"
    /\ strategy_state' = InsertState(strategy_state, writer.regime, writer.note)
    /\ writer' = WriterIdle(writer.calls)
    /\ UNCHANGED <<weights, tune, today, paperVars, liveVars, outcomeVars, jobVars>>

\* init_db, which every job runs when it starts, in one transaction.  The stored
\* vectors have every key of the defaults, so its patch of missing keys changes
\* nothing.
InitDb ==
    /\ weights' = IF ActiveRows(weights) = <<>>
                  THEN InsertWeights(weights, DefaultWeights) ELSE weights
    /\ paper_accounts' =
          IF Len(paper_accounts) = 0
          THEN <<[day |-> today, cash |-> DefaultCash, nav |-> DefaultCash,
                  note |-> "paper-init"]>>
          ELSE paper_accounts
    /\ strategy_state' = IF ActiveRows(strategy_state) = <<>>
                         THEN InsertState(strategy_state, "NEUTRAL", "init")
                         ELSE strategy_state
    /\ UNCHANGED <<writer, tune, paper_orders, paper_positions, paper_settings, cyc, today,
                   liveVars, outcomeVars, jobVars>>

-----------------------------------------------------------------------------
(* src/feedback/outcomes.py *)

Horizons == <<"1h", "4h", "1d">>

\* timedelta(hours=1), timedelta(hours=4), timedelta(days=1), in hours
HorizonHours(horizon) ==
    CASE horizon = "1h" -> 1
      [] horizon = "4h" -> 4
      [] horizon = "1d" -> 24

\* The hours at which the clock is read.
ClockTimes == {0, 1, 4, 24}

\* The latest closes a scan sees.
QuoteMaps ==
    {[t \in Tickers |-> 100],
     [t \in Tickers |-> IF t = "A" THEN 110 ELSE 100],
     [t \in Tickers |-> IF t = "A" THEN 0 ELSE 110]}

\* The tickers a scan ranks into its candidates, in rank order.
TopPicks == {<<"A">>, <<"A", "B">>}

\* fallback_latest_price_map: none, or one quoting every ticker
FallbackMaps == {<<>>, [t \in Tickers |-> 120]}

\* _eligible
Eligible(ts_kst, horizon, clock) == clock - ts_kst >= HorizonHours(horizon)

\* _later_snapshot_price: the first snapshot of the ticker at or after the target
LaterSnapshotPrice(snapshots, ticker, target_ts) ==
    LET later == {s \in snapshots : s.ticker = ticker /\ s.ts_kst >= target_ts}
    IN  IF later = {} THEN [found |-> FALSE, price |-> 0]
        ELSE LET first == CHOOSE s \in later : \A o \in later : s.ts_kst <= o.ts_kst
             IN  [found |-> TRUE, price |-> first.price]

\* ret = (later / price_then) - 1.0, kept as the fraction it is
Ret(later, price_then) == [num |-> later - price_then, den |-> price_then]

SameRet(a, b) == a.num * b.den = b.num * a.den

SameOutcome_never(prev, ret, price_then, later) == FALSE

\* same_ret and same_then and same_later
SameOutcome(prev, ret, price_then, later) ==
    /\ SameRet(prev.ret, ret)
    /\ prev.price_then = price_then
    /\ prev.price_later = later

\* INSERT OR REPLACE INTO <table>, whose primary key is the fields `key`
InsertOrReplace(table, row, key) ==
    {r \in table : \E f \in key : r[f] # row[f]} \cup {row}

OutcomeKey == {"run_id", "ticker", "horizon"}

\* SELECT r.run_id, r.ts_kst, c.ticker, c.price FROM runs r JOIN candidates c
JoinedRows(runs_tbl, candidates_tbl) ==
    [i \in 1..Len(candidates_tbl) |->
        [run_id |-> candidates_tbl[i].run_id,
         ts_kst |-> runs_tbl[candidates_tbl[i].run_id].ts_kst,
         ticker |-> candidates_tbl[i].ticker,
         price |-> candidates_tbl[i].price]]

\* One pass of the inner loop of fill_outcomes.
FillStep(acc, row, horizon, snapshots, fallback, clock) ==
    LET price_then == row.price
        snap == LaterSnapshotPrice(snapshots, row.ticker, row.ts_kst + HorizonHours(horizon))
        later == IF ~snap.found /\ row.ticker \in DOMAIN fallback
                 THEN [found |-> TRUE, price |-> fallback[row.ticker]]
                 ELSE snap
        ret == Ret(later.price, price_then)
        prev == {o \in acc.table : /\ o.run_id = row.run_id
                                   /\ o.ticker = row.ticker
                                   /\ o.horizon = horizon}
    IN  IF price_then <= 0 THEN acc
        ELSE IF ~Eligible(row.ts_kst, horizon, clock) THEN acc
        ELSE IF ~later.found THEN acc
        ELSE IF /\ prev # {}
                /\ SameOutcome(CHOOSE o \in prev : TRUE, ret, price_then, later.price)
        THEN acc
        ELSE [table |-> InsertOrReplace(acc.table,
                            [run_id |-> row.run_id, ticker |-> row.ticker,
                             horizon |-> horizon, ret |-> ret,
                             price_then |-> price_then, price_later |-> later.price],
                            OutcomeKey),
              inserted |-> acc.inserted + 1]

\* The first n passes of fill_outcomes' loops: rows outside, horizons inside.
RECURSIVE FillLoop(_, _, _, _, _, _)
FillLoop(n, rows, table, snapshots, fallback, clock) ==
    IF n = 0 THEN [table |-> table, inserted |-> 0]
    ELSE FillStep(FillLoop(n - 1, rows, table, snapshots, fallback, clock),
                  rows[((n - 1) \div Len(Horizons)) + 1],
                  Horizons[((n - 1) % Len(Horizons)) + 1],
                  snapshots, fallback, clock)

\* fill_outcomes
FillOutcomes(runs_tbl, candidates_tbl, snapshots, table, fallback, clock) ==
    LET rows == JoinedRows(runs_tbl, candidates_tbl)
    IN  FillLoop(Len(rows) * Len(Horizons), rows, table, snapshots, fallback, clock)

\* The (run, horizon) pairs whose horizon has elapsed.
Elapsed(runs_tbl, clock) ==
    {<<runs_tbl[i].run_id, Horizons[j]>> :
        <<i, j>> \in {p \in (1..Len(runs_tbl)) \X (1..Len(Horizons)) :
                         Eligible(runs_tbl[p[1]].ts_kst, Horizons[p[2]], clock)}}

-----------------------------------------------------------------------------
(* Outcome attribution as a state machine *)

NoFill ==
    [calls |-> 0, inserted |-> 0, repeated |-> FALSE,
     data |-> [runs |-> <<>>, candidates |-> <<>>, price_snapshots |-> {},
               elapsed |-> {}, fallback |-> <<>>]]

OutcomesIdle ==
    /\ runs = <<>>
    /\ candidates = <<>>
    /\ price_snapshots = {}
    /\ outcomes = {}
    /\ now = 0
    /\ fill = NoFill

\* The hourly job's writes to runs, price_snapshots and candidates: a snapshot
\* row for every quoted ticker, a candidates row for every ranked one.
HourlyScan ==
    /\ Len(runs) < MaxRuns
    /\ IF runs = <<>> THEN TRUE ELSE runs[Len(runs)].ts_kst < now
    /\ \E quotes \in QuoteMaps, picks \in TopPicks :
          LET run_id == Len(runs) + 1
          IN  /\ runs' = Append(runs, [run_id |-> run_id, ts_kst |-> now])
              /\ price_snapshots' =
                    price_snapshots \cup
                    {[run_id |-> run_id, ts_kst |-> now, ticker |-> t, price |-> quotes[t]] :
                        t \in Tickers}
              /\ candidates' =
                    candidates \o
                    [i \in 1..Len(picks) |->
                        [run_id |-> run_id, ticker |-> picks[i], price |-> quotes[picks[i]]]]
    /\ UNCHANGED <<outcomes, now, fill, today, paperVars, liveVars, storeVars, jobVars>>

\* fill_outcomes, one call from its query to its return
NightlyFill ==
    /\ fill.calls < MaxFills
    /\ \E fallback \in FallbackMaps :
          LET r == FillOutcomes(runs, candidates, price_snapshots, outcomes, fallback, now)
              data == [runs |-> runs, candidates |-> candidates,
                       price_snapshots |-> price_snapshots,
                       elapsed |-> Elapsed(runs, now), fallback |-> fallback]
          IN  /\ outcomes' = r.table
              /\ fill' = [calls |-> fill.calls + 1, inserted |-> r.inserted,
                          repeated |-> fill.calls > 0 /\ fill.data = data,
                          data |-> data]
    /\ UNCHANGED <<runs, candidates, price_snapshots, now, today, paperVars, liveVars,
                   storeVars, jobVars>>

\* Time passes.
Tick ==
    /\ \E t \in ClockTimes : t > now /\ now' = t
    /\ UNCHANGED <<runs, candidates, price_snapshots, outcomes, fill, today, paperVars,
                   liveVars, storeVars, jobVars>>

-----------------------------------------------------------------------------
(* src/research/strategy_lab.py *)

\* thresholds and max_positions_set, and the grid in the order of the two loops
LabThresholds == <<48, 52, 55, 58, 62>>

LabMaxPositionsSet == <<1, 2, 3, 4>>

LabGrid ==
    [i \in 1..(Len(LabThresholds) * Len(LabMaxPositionsSet)) |->
        [entry_score_threshold |-> LabThresholds[((i - 1) \div Len(LabMaxPositionsSet)) + 1],
         max_positions |-> LabMaxPositionsSet[((i - 1) % Len(LabMaxPositionsSet)) + 1]]]

\* The (score, ret) rows one run contributes to the dataset, ret in 1/10000.
LabRunRows ==
    {<<[score |-> 50, ret |-> -60]>>,
     <<[score |-> 60, ret |-> 100]>>,
     <<[score |-> 50, ret |-> 100], [score |-> 60, ret |-> -60]>>}

\* by_run: the rows of _load_dataset grouped by run_id
RECURSIVE LabDatasetsOf(_)
LabDatasetsOf(n) ==
    IF n = 0 THEN {<<>>}
    ELSE LabDatasetsOf(n - 1)
         \cup {Append(d, r) : d \in {x \in LabDatasetsOf(n - 1) : Len(x) = n - 1},
                              r \in LabRunRows}

LabDatasets == LabDatasetsOf(MaxLabRuns)

\* The min_runs argument of a call.
LabMinRuns == {2, 3}

\* sorted(..., key=score, reverse=True): a stable sort, by insertion
RECURSIVE SortByScore(_)
SortByScore(rows) ==
    IF rows = <<>> THEN <<>>
    ELSE LET rest == SortByScore(Tail(rows))
             x == Head(rows)
             before == SelectSeq(rest, LAMBDA y : y.score > x.score)
             after == SelectSeq(rest, LAMBDA y : y.score <= x.score)
         IN  before \o <<x>> \o after

\* selected = sorted([x for x in rows if x[0] >= th], ...)[:max_pos]
LabSelected(rows, th, max_pos) ==
    LET sorted == SortByScore(SelectSeq(rows, LAMBDA x : x.score >= th))
    IN  SubSeq(sorted, 1, Min(max_pos, Len(sorted)))

\* run_rets of one combination: one sample per run with a selected row
RECURSIVE LabRunRets(_, _, _)
LabRunRets(by_run, th, max_pos) ==
    IF by_run = <<>> THEN <<>>
    ELSE LET selected == LabSelected(Head(by_run), th, max_pos)
             rest == LabRunRets(Tail(by_run), th, max_pos)
         IN  IF selected = <<>> THEN rest
             ELSE <<SeqSum([i \in 1..Len(selected) |-> selected[i].ret]) \div Len(selected)>>
                  \o rest

\* The largest r with r * r <= x.
Isqrt(x) == CHOOSE r \in 0..x : r * r <= x /\ (r + 1) * (r + 1) > x

\* _calc_metrics: avg = sum / n, win = wins / n, vol the population deviation
LabMetrics(run_rets) ==
    LET n == Len(run_rets)
        total == SeqSum(run_rets)
        squares == SeqSum([i \in 1..n |-> run_rets[i] * run_rets[i]])
    IN  [n |-> n, sum |-> total,
         wins |-> Len(SelectSeq(run_rets, LAMBDA r : r > 0)),
         vol |-> IF n > 1 THEN Isqrt((n * squares - total * total) \div (n * n)) ELSE 0]

\* _objective, times 100 * n: 0.70 * avg + 0.25 * (win - 0.5) - 0.20 * max(0, vol - 0.008)
LabObjective(m) ==
    [num |-> 70 * m.sum + 25 * BPS * m.wins - (25 * BPS * m.n) \div 2
             - 20 * Max(0, m.vol - 80) * m.n,
     den |-> m.n]

\* a.objective > b.objective
LabBetter(a, b) == a.num * b.den > b.num * a.den

\* results: the combinations the gate lets through, in grid order
LabResults(by_run, min_runs) ==
    LET sample(i) == LabRunRets(by_run, LabGrid[i].entry_score_threshold,
                                LabGrid[i].max_positions)
        kept == SelectSeq([i \in 1..Len(LabGrid) |-> i],
                          LAMBDA i : ~(Len(sample(i)) < min_runs))
    IN  [k \in 1..Len(kept) |->
            [combo |-> kept[k], params |-> LabGrid[kept[k]],
             n_runs |-> Len(sample(kept[k])),
             objective |-> LabObjective(LabMetrics(sample(kept[k])))]]

\* results.sort(key=objective, reverse=True); best = results[0]: the first of
\* the results no other result beats
LabBest(results) ==
    results[CHOOSE k \in 1..Len(results) :
                /\ \A j \in 1..Len(results) : ~LabBetter(results[j].objective,
                                                         results[k].objective)
                /\ \A j \in 1..(k - 1) : LabBetter(results[k].objective,
                                                   results[j].objective)
                                         \/ LabBetter(results[j].objective,
                                                      results[k].objective)]

\* The number of samples of every combination of the grid.
LabSamples(by_run) ==
    [i \in 1..Len(LabGrid) |->
        Len(LabRunRets(by_run, LabGrid[i].entry_score_threshold, LabGrid[i].max_positions))]

\* INSERT INTO strategy_experiments(...) VALUES (?,?,?,?,1)
InsertExperiment(table, best) ==
    Append(table, [exp_id |-> Len(table) + 1, active |-> TRUE, params |-> best.params,
                   n_runs |-> best.n_runs, objective |-> best.objective])

\* run_strategy_lab: the table it leaves and the status it returns
RunStrategyLab(table, by_run, min_runs) ==
    IF by_run = <<>>
    THEN [table |-> table, status |-> Status("OFF(no-data)", 0), best |-> 0]
    ELSE LET results == LabResults(by_run, min_runs)
         IN  IF results = <<>>
             THEN [table |-> table, status |-> Status("OFF(sample<{min_runs})", min_runs),
                   best |-> 0]
             ELSE [table |-> InsertExperiment(DeactivateAll(table), LabBest(results)),
                   status |-> Status("ON", 0), best |-> LabBest(results).combo]

NoLab ==
    [calls |-> 0, status |-> Status("none", 0), min_runs |-> 0, runs |-> 0,
     samples |-> [i \in 1..Len(LabGrid) |-> 0], best |-> 0]

\* One call of run_strategy_lab over the dataset the store holds at that time.
StrategyLab ==
    /\ lab.calls < MaxLabCalls
    /\ \E by_run \in LabDatasets, min_runs \in LabMinRuns :
          LET r == RunStrategyLab(strategy_experiments, by_run, min_runs)
          IN  /\ strategy_experiments' = r.table
              /\ lab' = [calls |-> lab.calls + 1, status |-> r.status,
                         min_runs |-> min_runs, runs |-> Len(by_run),
                         samples |-> LabSamples(by_run), best |-> r.best]
    /\ UNCHANGED <<today, paperVars, liveVars, storeVars, outcomeVars, overlay, rebalance, buy, job, crash, exit_pass, tailVars>>

-----------------------------------------------------------------------------
(* The risk overlay as a function of its measurements (src/live/executor.py) *)

\* Settings.live_risk_off_day_loss_pct, live_risk_off_drawdown_pct and
\* live_risk_on_day_gain_pct, in units of 1/10000.
LiveRiskOffDayLossPct == 150
LiveRiskOffDrawdownPct == 400
LiveRiskOnDayGainPct == 100

\* The first test of _build_risk_overlay.
RiskOff_noDayLoss(day_return, account_drawdown, unrealized_ret) ==
    \/ account_drawdown >= Abs(LiveRiskOffDrawdownPct)
    \/ unrealized_ret <= -500
RiskOff(day_return, account_drawdown, unrealized_ret) ==
    \/ day_return <= -Abs(LiveRiskOffDayLossPct)
    \/ account_drawdown >= Abs(LiveRiskOffDrawdownPct)
    \/ unrealized_ret <= -500

\* The day_return and unrealized_ret part of its second test.
RiskOn(day_return, unrealized_ret) ==
    day_return >= Abs(LiveRiskOnDayGainPct) /\ unrealized_ret > -100

RiskCondOf(day_return, account_drawdown, unrealized_ret) ==
    [risk_off |-> RiskOff(day_return, account_drawdown, unrealized_ret),
     risk_on |-> RiskOn(day_return, unrealized_ret)]

\* Measurements the overlay is called with: _live_day_return, _live_account_drawdown,
\* the unrealized return of the snapshot, today's order statistics, the snapshot's
\* cash and total asset, and the base threshold of the cycle.
OverlayDayReturns == {-200, -150, -149, 0, 100}
OverlayDrawdowns == {0, 400}
OverlayUnrealized == {-500, 0}
OverlayStats ==
    { [failed |-> 0, total |-> 0], [failed |-> 1, total |-> 3],
      [failed |-> 2, total |-> 3], [failed |-> 2, total |-> 2] }
OverlaySnapshots ==
    { [cash |-> 1000000, total_asset |-> 1000000],
      [cash |-> 100000, total_asset |-> 1000000],
      [cash |-> 0, total_asset |-> 0] }
OverlayBaseThresholds == {60, 75, 89, 92}

NoOverlay ==
    [calls |-> 0, day_return |-> 0, account_drawdown |-> 0, unrealized_ret |-> 0,
     stats |-> [failed |-> 0, total |-> 0],
     snapshot |-> [cash |-> 0, total_asset |-> 0],
     base_threshold |-> 0,
     risk |-> [mode |-> "", effective_threshold |-> 0, order_scale |-> 0,
               position_scale |-> 0, reserve_pct |-> 0]]

\* One call of _build_risk_overlay.
RiskOverlay ==
    /\ overlay.calls < MaxOverlayCalls
    /\ \E day_return \in OverlayDayReturns, account_drawdown \in OverlayDrawdowns,
          unrealized_ret \in OverlayUnrealized, stats \in OverlayStats,
          snapshot \in OverlaySnapshots, base_threshold \in OverlayBaseThresholds :
          overlay' = [calls |-> overlay.calls + 1,
                      day_return |-> day_return,
                      account_drawdown |-> account_drawdown,
                      unrealized_ret |-> unrealized_ret,
                      stats |-> stats, snapshot |-> snapshot,
                      base_threshold |-> base_threshold,
                      risk |-> BuildRiskOverlay(
                                  stats, snapshot, base_threshold,
                                  RiskCondOf(day_return, account_drawdown,
                                             unrealized_ret))]
    /\ UNCHANGED <<today, paperVars, liveVars, storeVars, outcomeVars,
                   strategy_experiments, lab, rebalance, buy, job, crash, exit_pass, tailVars>>

-----------------------------------------------------------------------------
(* update_strategy_state as one call (src/feedback/rebalance.py) *)

\* Statistics on both sides of every limit of _decide_regime.
RegimeStats ==
    [n : {19, 20}, win_rate_1d : {450, 451, 579, 580},
     avg_ret_1d : {-15, -14, 19, 20}, paper_pnl_day : {-1, 0}]

NoStats == [n |-> 0, win_rate_1d |-> 0, avg_ret_1d |-> 0, paper_pnl_day |-> 0]

\* The (regime, entry_score_threshold, position_scale) of a loaded state.
Triple(state) ==
    <<state.regime, state.entry_score_threshold, state.position_scale>>

NoRebalance(calls) ==
    [calls |-> calls, completed |-> 0, stats |-> NoStats, prev_stats |-> NoStats,
     decided |-> "", status |-> "", returned |-> Triple(LoadStrategyState(<<>>)),
     current |-> Triple(LoadStrategyState(<<>>)), rows_before |-> 0,
     prev_rows_before |-> 0]

\* "changed" of update_strategy_state
StateChanged_never(current, regime) == FALSE
StateChanged(current, regime) ==
    \/ current.regime # regime
    \/ current.entry_score_threshold # RegimeParams(regime).entry_score_threshold
    \/ current.position_scale # RegimeParams(regime).position_scale

\* update_strategy_state, from its first query to its return.
UpdateStrategyState ==
    /\ rebalance.calls < MaxRebalances
    /\ \E stats \in RegimeStats :
          LET current == LoadStrategyState(strategy_state)
              d == DecideRegime(stats)
              changed == StateChanged(current, d.regime)
              table == IF changed
                       THEN InsertState(DeactivateAll(strategy_state), d.regime, d.reason)
                       ELSE strategy_state
          IN  /\ strategy_state' = table
              /\ rebalance' = [calls |-> rebalance.calls + 1,
                               completed |-> rebalance.completed + 1,
                               stats |-> stats, prev_stats |-> rebalance.stats,
                               decided |-> d.regime,
                               status |-> IF changed THEN "UPDATED" ELSE "UNCHANGED",
                               returned |-> Triple(LoadStrategyState(table)),
                               current |-> Triple(current),
                               rows_before |-> Len(strategy_state),
                               prev_rows_before |-> rebalance.rows_before]
    /\ UNCHANGED <<weights, writer, tune, today, paperVars, liveVars, outcomeVars,
                   strategy_experiments, lab, overlay, buy, job, crash, exit_pass, tailVars>>

\* update_strategy_state when the process dies between its UPDATE and its INSERT:
\* the UPDATE is committed, nothing is returned.
UpdateStrategyStateKilled ==
    /\ rebalance.calls < MaxRebalances
    /\ \E stats \in RegimeStats :
          StateChanged(LoadStrategyState(strategy_state), DecideRegime(stats).regime)
    /\ strategy_state' = DeactivateAll(strategy_state)
    /\ rebalance' = NoRebalance(rebalance.calls + 1)
    /\ UNCHANGED <<weights, writer, tune, today, paperVars, liveVars, outcomeVars,
                   strategy_experiments, lab, overlay, buy, job, crash, exit_pass, tailVars>>

-----------------------------------------------------------------------------
(* The BUY order of the entry pass as one call (src/live/executor.py) *)

\* qty of the order, and the buyable quantity inquire_buying_power reports on the
\* retry (0: none reported, or the provider has no such call)
BuyQtys == 1..MaxBuyQty
RetryCaps == 0..MaxRetryCap

NoBuy ==
    [n |-> 0, qty |-> 0, outcome |-> "", retry_on_fund_error |-> FALSE, retry_cap |-> 0,
     result |-> [fund |-> FALSE, retried |-> FALSE, retry_qty |-> 0, status |-> "",
                 final_qty |-> 0, calls |-> 0, rejected |-> FALSE]]

\* One BUY order: the first call, the retry branch, the recorded row.
BuyOrder ==
    /\ buy.n < MaxBuyOrders
    /\ \E qty \in BuyQtys, outcome \in BuyOutcomes, retry_on_fund_error \in BOOLEAN,
          retry_cap \in RetryCaps :
          buy' = [n |-> buy.n + 1, qty |-> qty, outcome |-> outcome,
                  retry_on_fund_error |-> retry_on_fund_error, retry_cap |-> retry_cap,
                  result |-> PlaceBuy(qty, outcome, retry_on_fund_error, retry_cap)]
    /\ UNCHANGED <<today, paperVars, liveVars, storeVars, outcomeVars,
                   strategy_experiments, lab, overlay, rebalance, job, crash, exit_pass, tailVars>>

-----------------------------------------------------------------------------
(* The top level of the scheduled jobs (src/jobs) *)

\* run_hourly, run_nightly, run_watchdog, run_chat_commands
JobOps == {"hourly", "nightly", "watchdog", "chat-command"}

\* Whether main wraps its body in try/except Exception; run_watchdog does not.
HasHandler(op) == op # "watchdog"

\* What every main does before its body: load_settings, db.init_db, the notifier.
SetupSteps == <<"load_settings", "init_db">>

\* The calls of the body of run_nightly.main, in program order.
NightlySteps(strategy_lab_enable) ==
    <<"fill_outcomes", "tune_weights", "build_nightly_stats",
      IF strategy_lab_enable THEN "run_strategy_lab" ELSE "latest_strategy_lab",
      "update_strategy_state", "build_training_report", "save_training_report",
      "format_nightly_message">>

\* The bodies of the mains, call by call where the order matters.
BodySteps(op, strategy_lab_enable) ==
    CASE op = "nightly"      -> NightlySteps(strategy_lab_enable)
      [] op = "hourly"       -> <<"scan", "format_hourly_message">>
      [] op = "watchdog"     -> <<"check_units", "_send_daily_watchdog_summary">>
      [] op = "chat-command" -> <<"get_updates", "_handle_message", "_state_set">>

\* The steps followed by a notifier.send of the normal report or reply:
\* always after the formatted report, sometimes for the daily summary and replies.
SendsAfter(step) ==
    CASE step \in {"format_nightly_message", "format_hourly_message"} -> {TRUE}
      [] step \in {"_send_daily_watchdog_summary", "_handle_message"} -> BOOLEAN
      [] OTHER -> {FALSE}

\* The steps main can return 0 from without going on: the calendar gates of
\* run_hourly (part of its setup) and an empty get_updates.
ReturnsEarly(op, step) ==
    \/ op = "hourly" /\ step = "calendar"
    \/ op = "chat-command" /\ step = "get_updates"

NoJob ==
    [runs |-> 0, op |-> "", pc |-> "idle", todo |-> <<>>, steps |-> <<>>, sent |-> <<>>,
     exit |-> -1, raised |-> FALSE, caught |-> FALSE]

\* A timer starts a job.
JobStart ==
    /\ job.pc \in {"idle", "done"}
    /\ job.runs < MaxJobRuns
    /\ \E op \in JobOps, strategy_lab_enable \in BOOLEAN :
          job' = [NoJob EXCEPT !.runs = job.runs + 1, !.op = op, !.pc = "setup",
                               !.todo = BodySteps(op, strategy_lab_enable)]
    /\ UNCHANGED <<today, paperVars, liveVars, storeVars, outcomeVars, callVars, crash, exit_pass, tailVars>>

\* The statements of main before its try: an exception leaves main uncaught.
JobSetup ==
    /\ job.pc = "setup"
    /\ \E outcome \in {"ok", "raise", "return"} :
          /\ outcome = "return" => ReturnsEarly(job.op, "calendar")
          /\ job' = CASE outcome = "ok" ->
                           [job EXCEPT !.pc = "body", !.steps = SetupSteps]
                      [] outcome = "raise" ->
                           [job EXCEPT !.pc = "done", !.raised = TRUE, !.exit = 1]
                      [] outcome = "return" ->
                           [job EXCEPT !.pc = "done", !.steps = SetupSteps, !.exit = 0]
    /\ UNCHANGED <<today, paperVars, liveVars, storeVars, outcomeVars, callVars, crash, exit_pass, tailVars>>

\* One call of the body: it returns, perhaps followed by a notifier.send, or it
\* raises, and the handler of main, where there is one, sends "<operation> error"
\* and returns 1.
JobStep ==
    /\ job.pc = "body"
    /\ LET step == Head(job.todo)
           rest == Tail(job.todo)
       IN  \E outcome \in {"ok", "raise", "return"}, sends \in SendsAfter(step) :
             /\ outcome = "return" => ReturnsEarly(job.op, step)
             /\ outcome # "ok" => sends = (CHOOSE b \in SendsAfter(step) : TRUE)
             /\ job' =
                  CASE outcome = "ok" ->
                         [job EXCEPT !.steps = Append(@, step), !.todo = rest,
                                     !.sent = IF sends THEN Append(@, "report") ELSE @,
                                     !.pc = IF rest = <<>> THEN "done" ELSE "body",
                                     !.exit = IF rest = <<>> THEN 0 ELSE @]
                    [] outcome = "return" ->
                         [job EXCEPT !.steps = Append(@, step), !.pc = "done", !.exit = 0]
                    [] outcome = "raise" ->
                         [job EXCEPT !.pc = "done", !.raised = TRUE, !.exit = 1,
                                     !.caught = HasHandler(job.op),
                                     !.sent = IF HasHandler(job.op)
                                              THEN Append(@, "error") ELSE @]
    /\ UNCHANGED <<today, paperVars, liveVars, storeVars, outcomeVars, callVars, crash, exit_pass, tailVars>>

-----------------------------------------------------------------------------
(* run_paper_trading interrupted between its store writes (src/paper/simulator.py) *)

NoCrash == [kills |-> 0, writes |-> 0]

\* The store writes of a cycle that got past the budget check, each committed on
\* its own: 1 executemany(paper_orders), 2 DELETE FROM paper_positions,
\* 3 executemany(paper_positions), 4 INSERT INTO paper_accounts.
\* The process dies after the first `writes` of them, writes < 4.
PaperCycleKilled ==
    /\ Len(paper_accounts) <= MaxCycles
    /\ crash.kills < MaxKills
    /\ \E sc \in SceneChoices(Scenes, HeldTickers(LoadPositions(paper_positions))),
          writes \in 1..3 :
          LET res == RunPaperTrading(paper_orders, paper_positions, paper_accounts,
                                     PaperInputs(sc))
              rows == SelectSeq(res.positions, LAMBDA p : p.qty > 0)
          IN  /\ ~res.limit
              /\ paper_orders' = paper_orders \o res.orders
              /\ paper_positions' =
                    IF writes = 1 THEN paper_positions
                    ELSE IF writes = 2 THEN DeleteAll(paper_positions)
                    ELSE InsertRows(DeleteAll(paper_positions), rows).table
              /\ crash' = [kills |-> crash.kills + 1, writes |-> writes]
    /\ cyc' = NoCycle
    /\ UNCHANGED <<paper_accounts, paper_settings, today, liveVars, storeVars, outcomeVars,
                   callVars, job, exit_pass, tailVars>>

-----------------------------------------------------------------------------
(* The exit pass of run_paper_trading on its own (src/paper/simulator.py) *)

\* return_1h and drawdown_20 on both sides of every limit of _sell_rule, in 1/10000
ExitReturns == {-351, -350, -349, 599, 600}
ExitDrawdowns == {-901, -900}

\* Rows of market_state: every return with no drawdown, every drawdown with a
\* return inside the limits, and one row past two limits at once.
ExitRows ==
    [price : {100}, return_1h : ExitReturns, drawdown_20 : {0}] \cup
    [price : {100}, return_1h : {-349}, drawdown_20 : ExitDrawdowns] \cup
    {[price |-> 100, return_1h |-> -350, drawdown_20 |-> -901]}

\* market_by_ticker: per ticker no row, or one of these rows
ExitMarkets == [Tickers -> {NoRow} \cup ExitRows]

\* The positions loaded from the store, in the order of the dict: one or two
\* tickers, each once, with a positive quantity.
ExitHoldings ==
    { <<[ticker |-> t, qty |-> 3, avg_price |-> 100]>> : t \in Tickers } \cup
    { <<[ticker |-> tu[1], qty |-> 3, avg_price |-> 100],
        [ticker |-> tu[2], qty |-> 7, avg_price |-> 100]>> :
          tu \in {x \in Tickers \X Tickers : x[1] # x[2]} }

NoExitPass ==
    [n |-> 0, positions |-> <<>>, market |-> [t \in Tickers |-> NoRow], budget_left |-> 0,
     after |-> [cash |-> 0, positions |-> <<>>, orders |-> <<>>, budget_left |-> 0]]

\* One exit pass over loaded positions, with the budget the cycle has left.
PaperExitPass ==
    /\ exit_pass.n < MaxExitPasses
    /\ \E positions \in ExitHoldings, market \in ExitMarkets, budget_left \in 0..2 :
          exit_pass' =
              [n |-> exit_pass.n + 1, positions |-> positions, market |-> market,
               budget_left |-> budget_left,
               after |-> ExitPass([i \in 1..Len(positions) |-> positions[i].ticker],
                                  [cash |-> 0, positions |-> positions, orders |-> <<>>,
                                   budget_left |-> budget_left],
                                  market,
                                  [day |-> today, run_id |-> exit_pass.n + 1,
                                   slippage_bps |-> 0, fee_bps |-> 0])]
    /\ UNCHANGED <<today, paperVars, liveVars, storeVars, outcomeVars, callVars, job, crash,
                   tailVars>>

-----------------------------------------------------------------------------
(* The two sell rules on the same features (simulator.py, executor.py) *)

\* Features on both sides of the limits of both rules.
RuleReturns == {-350, -349, 599, 600, 699, 700}
RuleDrawdowns == {-1001, -1000, -901, -900, 0}
RuleFlows == {-7, -1, 0, 2}
RuleScores == {44, 45}
RulePnls == {-800, 0, 1200}

NoSellRules ==
    [n |-> 0, ret_1h |-> 0, drawdown_20 |-> 0, flow |-> 0, score |-> 0, pnl_pct |-> 0,
     paper |-> FALSE, live |-> FALSE]

\* Both _sell_rule functions applied to one market row and position.
CompareSellRules ==
    /\ sell_rules.n < MaxRuleCalls
    /\ \E ret_1h \in RuleReturns, drawdown_20 \in RuleDrawdowns, flow \in RuleFlows,
          score \in RuleScores, pnl_pct \in RulePnls :
          sell_rules' =
              [n |-> sell_rules.n + 1, ret_1h |-> ret_1h, drawdown_20 |-> drawdown_20,
               flow |-> flow, score |-> score, pnl_pct |-> pnl_pct,
               paper |-> SellRule([price |-> 0, return_1h |-> ret_1h,
                                   drawdown_20 |-> drawdown_20]).do_sell,
               live |-> SellRuleLive(ret_1h, drawdown_20, flow, score, pnl_pct).do_sell]
    /\ UNCHANGED <<headVars, training, order_call, chat>>

-----------------------------------------------------------------------------
(* The training report: src/paper/training_coach.py *)

\* Money ratios are in 1/10000, win rates in 1/1000, the score in 1/10 points.

\* _fetch_nav_frame: the paper_accounts rows not older than the lookback window,
\* in time order.
FetchNavFrame(rows, cutoff) == SelectSeq(rows, LAMBDA r : r.day >= cutoff)

RECURSIVE RunningMax(_, _)
RunningMax(navs, i) ==
    IF i = 1 THEN navs[1].nav ELSE Max(navs[i].nav, RunningMax(navs, i - 1))

\* _max_drawdown: abs(min(nav / cummax - 1))
MaxDrawdown(nav_df) ==
    IF nav_df = <<>> THEN 0
    ELSE LET dd(i) == ((RunningMax(nav_df, i) - nav_df[i].nav) * 10000)
                          \div RunningMax(nav_df, i)
         IN  CHOOSE d \in {dd(i) : i \in 1..Len(nav_df)} :
                \A i \in 1..Len(nav_df) : dd(i) <= d

\* groupby("day").tail(1): the last row of every day
DailyNav(nav_df) ==
    SelectSeq([i \in 1..Len(nav_df) |->
                  [nav |-> nav_df[i].nav,
                   last |-> IF i = Len(nav_df) THEN TRUE
                            ELSE nav_df[i + 1].day # nav_df[i].day]],
              LAMBDA r : r.last)

\* (daily["nav"].pct_change().dropna() > 0).mean(), 0 without two days
DailyWin(nav_df) ==
    LET daily == DailyNav(nav_df)
        wins == Cardinality({k \in 2..Len(daily) : daily[k].nav > daily[k - 1].nav})
    IN  IF Len(daily) < 2 THEN 0 ELSE (wins * 1000) \div (Len(daily) - 1)

\* _clip(num / den, 0, 1) * points, in 1/1000 points
ClipPoints(num, den, points) ==
    IF num <= 0 \/ den <= 0 THEN 0
    ELSE IF num >= den THEN points * 1000
    ELSE (num * points * 1000) \div den

\* round(x, 1) of a sum given in 1/1000 points
RoundTenths(x) ==
    LET q == x \div 100
        r == x % 100
    IN  IF r > 50 \/ (r = 50 /\ q % 2 = 1) THEN q + 1 ELSE q

\* _risk_plan (mult in 1/100)
RiskPlan(level, base_max_new_positions) ==
    LET mult == IF level = "READY" THEN 100 ELSE IF level = "WATCH" THEN 60 ELSE 35
    IN  [mode |-> IF level = "READY" THEN "manual_live_small"
                  ELSE IF level = "WATCH" THEN "paper_plus_small_probe"
                  ELSE "paper_only",
         mult |-> mult,
         max_new_positions |->
             Max(1, (Max(1, base_max_new_positions) * mult + 50) \div 100)]

TrainingBaseMaxNewPositions == 2

\* the level of a report whose six gates and score are known
LevelOf_watchAsReady(ready, score, gate_history, gate_orders) ==
    IF score >= 750 /\ gate_history /\ gate_orders THEN "READY"
    ELSE IF score >= 600 /\ gate_history /\ gate_orders THEN "WATCH"
    ELSE "TRAINING"
LevelOf(ready, score, gate_history, gate_orders) ==
    IF ready /\ score >= 750 THEN "READY"
    ELSE IF score >= 600 /\ gate_history /\ gate_orders THEN "WATCH"
    ELSE "TRAINING"

\* build_training_report
BuildTrainingReport(rows, cutoff, order_total, out_n, out_win, min_days, min_trades, target_return, max_drawdown_limit) ==
    LET nav_df == FetchNavFrame(rows, cutoff)
    IN  IF nav_df = <<>>
        THEN [score |-> 0, level |-> "TRAINING", ready |-> FALSE, history_days |-> 0,
              gates |-> <<FALSE, FALSE>>, total |-> 0,
              risk_plan |-> RiskPlan("TRAINING", TrainingBaseMaxNewPositions)]
        ELSE
          LET history_days == Cardinality({nav_df[i].day : i \in 1..Len(nav_df)})
              nav_first == nav_df[1].nav
              nav_last == nav_df[Len(nav_df)].nav
              cumulative_return ==
                  IF nav_first > 0 THEN (nav_last * 10000) \div nav_first - 10000 ELSE 0
              max_drawdown == MaxDrawdown(nav_df)
              daily_win == DailyWin(nav_df)
              sample_score ==
                  (Min(Max(1, min_days), history_days) * 18000) \div Max(1, min_days)
                  + (Min(Max(1, min_trades), order_total) * 12000) \div Max(1, min_trades)
              perf_score == ClipPoints(cumulative_return + 300, 1000, 25)
              dd_score == ClipPoints(3 * max_drawdown_limit - 2 * max_drawdown,
                                     3 * max_drawdown_limit, 20)
              out_win_for_score == IF out_n >= 10 THEN out_win ELSE daily_win
              consistency_score == ClipPoints(daily_win - 450, 200, 15)
                                   + ClipPoints(out_win_for_score - 450, 200, 10)
              total == sample_score + perf_score + dd_score + consistency_score
              score == RoundTenths(total)
              gate_history == history_days >= min_days
              gate_orders == order_total >= min_trades
              gate_return == cumulative_return >= target_return
              gate_dd == max_drawdown <= max_drawdown_limit
              gate_daily_win == daily_win >= 500
              gate_outcome_win == out_n < 20 \/ out_win >= 500
              ready == gate_history /\ gate_orders /\ gate_return /\ gate_dd
                       /\ gate_daily_win /\ gate_outcome_win
              level == LevelOf(ready, score, gate_history, gate_orders)
          IN  [score |-> score, level |-> level, ready |-> ready,
               history_days |-> history_days,
               gates |-> <<gate_history, gate_orders, gate_return, gate_dd,
                           gate_daily_win, gate_outcome_win>>,
               total |-> total,
               risk_plan |-> RiskPlan(level, TrainingBaseMaxNewPositions)]

\* NAV histories: no row, one day, two days, three days, two rows on the last day.
TrainingDays == {<<>>, <<1>>, <<1, 2>>, <<1, 2, 3>>, <<1, 2, 2>>}
TrainingNavs == {100, 104}
TrainingHistories ==
    UNION {{[i \in 1..Len(ds) |-> [day |-> ds[i], nav |-> f[i]]] :
              f \in [1..Len(ds) -> TrainingNavs]} : ds \in TrainingDays}
TrainingCutoffs == {1, 2}
TrainingOrderTotals == {1, 2}
\* (outcome_n, outcome_win_rate_1d)
TrainingOutcomes == {<<0, 0>>, <<20, 400>>, <<25, 600>>}
TrainingMinDays == 2
TrainingMinTrades == 2
TrainingTargetReturns == {0, 300}
TrainingMaxDrawdown == 300

NoTraining ==
    [n |-> 0, rows |-> <<>>, cutoff |-> 0, order_total |-> 0, out_n |-> 0, out_win |-> 0,
     target_return |-> 0,
     report |-> BuildTrainingReport(<<>>, 0, 0, 0, 0, 0, 0, 0, 0)]

\* One build_training_report call.
TrainingReport ==
    /\ training.n < MaxTrainingCalls
    /\ \E rows \in TrainingHistories, cutoff \in TrainingCutoffs,
          order_total \in TrainingOrderTotals, out \in TrainingOutcomes,
          target_return \in TrainingTargetReturns :
          training' =
              [n |-> training.n + 1, rows |-> rows, cutoff |-> cutoff,
               order_total |-> order_total, out_n |-> out[1], out_win |-> out[2],
               target_return |-> target_return,
               report |-> BuildTrainingReport(rows, cutoff, order_total, out[1], out[2],
                                              TrainingMinDays, TrainingMinTrades,
                                              target_return, TrainingMaxDrawdown)]
    /\ UNCHANGED <<headVars, sell_rules, order_call, chat>>

-----------------------------------------------------------------------------
(* The broker client: src/providers/kis.py *)

RequestAttempts == 3    \* @retry(stop=stop_after_attempt(3), wait=wait_fixed(1))

\* _request under its retry decorator: the request is sent again after every
\* exception (an HTTP status >= 400, a broker rt_cd other than 0, a timeout) until
\* an attempt returns or the attempts are used up.  failing: how many of the next
\* requests to this path the broker fails.
RECURSIVE Request(_, _)
Request(failing, attempt) ==
    IF failing <= 0 THEN [ok |-> TRUE, sent |-> 1, failing |-> 0]
    ELSE IF attempt >= RequestAttempts THEN [ok |-> FALSE, sent |-> 1, failing |-> failing - 1]
    ELSE LET rest == Request(failing - 1, attempt + 1)
         IN  [rest EXCEPT !.sent = @ + 1]

\* _api_post(..., use_hashkey=True): the hashkey request (its failure is
\* swallowed), then the order request.  The access token is cached.
ApiPost(failing, hash_failing) ==
    LET hash == Request(hash_failing, 1)
        post == Request(failing, 1)
    IN  [ok |-> post.ok, sent |-> post.sent, hash_sent |-> hash.sent,
         failing |-> post.failing, hash_failing |-> hash.failing]

\* for tr_id in tr_ids: for payload in (payload_new, payload_old)
OrderVariants(side, is_paper) ==
    LET tr_ids == IF is_paper
                  THEN IF side = "BUY" THEN <<"VTTC0012U", "VTTC0802U">>
                       ELSE <<"VTTC0011U", "VTTC0801U">>
                  ELSE IF side = "BUY" THEN <<"TTTC0012U", "TTTC0802U">>
                       ELSE <<"TTTC0011U", "TTTC0801U">>
    IN  <<[tr_id |-> tr_ids[1], payload |-> "new"], [tr_id |-> tr_ids[1], payload |-> "old"],
          [tr_id |-> tr_ids[2], payload |-> "new"], [tr_id |-> tr_ids[2], payload |-> "old"]>>

\* The loop of place_cash_order over the variants left.
\* acc = [sent, hash_sent, per_variant, failing, hash_failing]
RECURSIVE OrderLoop(_, _)
OrderLoop(variants, acc) ==
    IF variants = <<>>
    THEN [ok |-> FALSE, tr_id |-> "", sent |-> acc.sent, hash_sent |-> acc.hash_sent,
          per_variant |-> acc.per_variant]
    ELSE LET post == ApiPost(acc.failing, acc.hash_failing)
             next == [sent |-> acc.sent + post.sent,
                      hash_sent |-> acc.hash_sent + post.hash_sent,
                      per_variant |-> Append(acc.per_variant, post.sent),
                      failing |-> post.failing, hash_failing |-> post.hash_failing]
         IN  IF post.ok
             THEN [ok |-> TRUE, tr_id |-> Head(variants).tr_id, sent |-> next.sent,
                   hash_sent |-> next.hash_sent, per_variant |-> next.per_variant]
             ELSE OrderLoop(Tail(variants), next)

\* place_cash_order: the account number and the arguments are checked first.
PlaceCashOrder(side, qty, is_paper, account_ok, failing, hash_failing) ==
    IF ~account_ok \/ side \notin {"BUY", "SELL"} \/ Max(0, qty) <= 0
    THEN [ok |-> FALSE, tr_id |-> "", sent |-> 0, hash_sent |-> 0, per_variant |-> <<>>]
    ELSE OrderLoop(OrderVariants(side, is_paper),
                   [sent |-> 0, hash_sent |-> 0, per_variant |-> <<>>,
                    failing |-> failing, hash_failing |-> hash_failing])

OrderSides == {"BUY", "SELL", "HOLD"}
OrderQtys == {0, 1}
\* how many order requests in a row the broker fails: none, fewer than one
\* _request sends, and up to every request place_cash_order can send
OrderFailures == 0..13
HashFailures == {0, 1, 3}

NoOrderCall ==
    [n |-> 0, side |-> "", qty |-> 0, is_paper |-> FALSE, account_ok |-> FALSE,
     failing |-> 0, hash_failing |-> 0,
     result |-> [ok |-> FALSE, tr_id |-> "", sent |-> 0, hash_sent |-> 0,
                 per_variant |-> <<>>]]

\* One place_cash_order invocation.
PlaceOrderCall ==
    /\ order_call.n < MaxOrderCalls
    /\ \E side \in OrderSides, qty \in OrderQtys, is_paper \in BOOLEAN,
          account_ok \in BOOLEAN, failing \in OrderFailures, hash_failing \in HashFailures :
          order_call' =
              [n |-> order_call.n + 1, side |-> side, qty |-> qty, is_paper |-> is_paper,
               account_ok |-> account_ok, failing |-> failing,
               hash_failing |-> hash_failing,
               result |-> PlaceCashOrder(side, qty, is_paper, account_ok, failing,
                                         hash_failing)]
    /\ UNCHANGED <<headVars, sell_rules, training, chat>>

-----------------------------------------------------------------------------
(* The chat commands: src/jobs/run_chat_commands.py *)

\* TELEGRAM_CHAT_ID, "" when it is not configured (the default)
AllowChats == {"owner", ""}
\* the chats that write to the bot
ChatIds == {"owner", "other"}
\* message texts: the start and stop commands, the help command, no text
ChatTexts == {"live_on", "live_off", "help", ""}

\* if allow_chat and chat_id != allow_chat: continue; if not text: continue
IsHandled(allow_chat, u) ==
    /\ allow_chat = "" \/ u.chat_id = allow_chat
    /\ u.text # ""

\* _handle_message, for the commands that switch live trading: the switch after
\* the message.
HandleMessage(state, text, live_enable) ==
    IF text = "live_on" THEN (IF live_enable THEN "1" ELSE state)
    ELSE IF text = "live_off" THEN "0"
    ELSE state

\* The loop of main over the updates of one poll.
\* acc = [state, handled, replies, max_update_id]
RECURSIVE HandleUpdates(_, _, _, _)
HandleUpdates(updates, acc, allow_chat, live_enable) ==
    IF updates = <<>> THEN acc
    ELSE LET u == Head(updates)
             seen == [acc EXCEPT !.max_update_id = Max(@, u.update_id)]
         IN  IF ~IsHandled(allow_chat, u)
             THEN HandleUpdates(Tail(updates), seen, allow_chat, live_enable)
             ELSE HandleUpdates(
                    Tail(updates),
                    [seen EXCEPT
                       !.state = HandleMessage(@, u.text, live_enable),
                       !.handled = Append(@, u.update_id),
                       \* TelegramNotifier.send returns at once without a chat id
                       !.replies = IF allow_chat # "" THEN @ + 1 ELSE @],
                    allow_chat, live_enable)

NoChat ==
    [allow_chat |-> "", offset |-> 0, inbox |-> <<>>, handled |-> <<>>, replies |-> 0,
     polls |-> 0, stored |-> <<>>]

\* A message reaches the bot: Telegram numbers the updates in order.
TelegramUpdate ==
    /\ Len(chat.inbox) < MaxUpdates
    /\ \E chat_id \in ChatIds, text \in ChatTexts :
          chat' = [chat EXCEPT !.inbox = Append(@, [update_id |-> Len(chat.inbox) + 1,
                                                    chat_id |-> chat_id, text |-> text])]
    /\ UNCHANGED <<headVars, sell_rules, training, order_call>>

\* One run of run_chat_commands.main.  get_updates(offset + 1) returns the
\* updates from that id on, or nothing when the request fails; the offset is
\* stored after the loop, and is not when that write raises.
ChatPoll ==
    /\ chat.polls < MaxPolls
    /\ live_run.pc = "idle"
    /\ \E outcome \in {"ok", "no_updates", "offset_write_fails"} :
        LET updates == IF outcome = "no_updates" THEN <<>>
                       ELSE SelectSeq(chat.inbox, LAMBDA u : u.update_id >= chat.offset + 1)
            done == HandleUpdates(updates,
                                  [state |-> live_trade_state, handled |-> chat.handled,
                                   replies |-> chat.replies, max_update_id |-> chat.offset],
                                  chat.allow_chat, live_settings.live_enable)
        IN  /\ live_trade_state' = done.state
            /\ chat' = [chat EXCEPT
                          !.polls = @ + 1,
                          !.handled = done.handled,
                          !.replies = done.replies,
                          !.offset = IF updates = <<>> \/ outcome = "offset_write_fails"
                                     THEN @ ELSE done.max_update_id,
                          \* the updates an offset write has covered
                          !.stored = IF updates = <<>> \/ outcome = "offset_write_fails"
                                     THEN @
                                     ELSE @ \o [i \in 1..Len(updates) |-> updates[i].update_id]]
    /\ UNCHANGED <<today, paperVars, live_orders, live_positions, live_accounts,
                   live_settings, live_run, live_sync, storeVars, outcomeVars, callVars,
                   job, crash, exit_pass, sell_rules, training, order_call>>

NextChat == TelegramUpdate \/ ChatPoll

-----------------------------------------------------------------------------
(* Specifications *)

\* Nothing has run yet.
JobsIdle ==
    /\ strategy_experiments = <<>>
    /\ lab = NoLab
    /\ overlay = NoOverlay
    /\ rebalance = NoRebalance(0)
    /\ buy = NoBuy
    /\ job = NoJob
    /\ crash = NoCrash
    /\ exit_pass = NoExitPass
    /\ sell_rules = NoSellRules
    /\ training = NoTraining
    /\ order_call = NoOrderCall
    /\ chat = NoChat

NextPaper == PaperCycle \/ NextDay

InitPaperSpec == InitPaper /\ LiveIdle /\ StoreIdle /\ OutcomesIdle /\ JobsIdle

SpecPaper == InitPaperSpec /\ [][NextPaper]_vars

\* A store that no paper cycle has touched yet.
PaperIdle ==
    /\ paper_orders = <<>>
    /\ paper_positions = <<>>
    /\ paper_accounts =
          <<[day |-> 1, cash |-> DefaultCash, nav |-> DefaultCash, note |-> "paper-init"]>>
    /\ paper_settings =
          [initial_cash |-> DefaultCash,
           max_trades_per_day |-> CHOOSE n \in TradeLimits : TRUE,
           entry_score_threshold |-> CHOOSE n \in EntryThresholds : TRUE,
           max_positions |-> 2, rates |-> [fee_bps |-> 0, slippage_bps |-> 0]]
    /\ today = 1
    /\ cyc = NoCycle

NextLive ==
    \/ LiveStart \/ LiveExitStep \/ LiveMidSync \/ LiveEntryStep \/ LivePostSync
    \/ SetLiveTradingEnabled \/ LiveMidnight

InitLiveSpec == PaperIdle /\ InitLive /\ StoreIdle /\ OutcomesIdle /\ JobsIdle

\* The two position tables together: paper cycles at one price level without a
\* fallback map, and the chat command's broker snapshots.
PositionScenes == ScenesQuoted({LivePrice}, {"none"})

PaperPositionsCycle ==
    PaperCycleOver(PositionScenes) /\ UNCHANGED <<liveVars, storeVars, outcomeVars, jobVars>>

NextPositions == PaperPositionsCycle \/ NextDay \/ ChatLiveStatus

InitPositionsSpec == PaperIdle /\ LiveIdle /\ StoreIdle /\ OutcomesIdle /\ JobsIdle

SpecPositions == InitPositionsSpec /\ [][NextPositions]_vars

SpecLive == InitLiveSpec /\ [][NextLive]_vars

NextStore == TuneDeactivate \/ TuneInsert \/ StateDeactivate \/ StateInsert \/ InitDb

InitStoreSpec == PaperIdle /\ LiveIdle /\ StoreIdle /\ OutcomesIdle /\ JobsIdle

SpecStore == InitStoreSpec /\ [][NextStore]_vars

InitTunerSpec == PaperIdle /\ LiveIdle /\ StoreIdle /\ OutcomesIdle /\ JobsIdle

SpecTuner == InitTunerSpec /\ [][NightlyTune]_vars

NextOutcomes == HourlyScan \/ NightlyFill \/ Tick

InitOutcomesSpec == PaperIdle /\ LiveIdle /\ StoreIdle /\ OutcomesIdle /\ JobsIdle

SpecOutcomes == InitOutcomesSpec /\ [][NextOutcomes]_vars


InitLabSpec == PaperIdle /\ LiveIdle /\ StoreIdle /\ OutcomesIdle /\ JobsIdle

SpecLab == InitLabSpec /\ [][StrategyLab]_vars

InitOverlaySpec == PaperIdle /\ LiveIdle /\ StoreIdle /\ OutcomesIdle /\ JobsIdle

SpecOverlay == InitOverlaySpec /\ [][RiskOverlay]_vars

NextRegime == UpdateStrategyState \/ UpdateStrategyStateKilled \/ InitDb

InitRegimeSpec == PaperIdle /\ LiveIdle /\ StoreIdle /\ OutcomesIdle /\ JobsIdle

SpecRegime == InitRegimeSpec /\ [][NextRegime]_vars

InitRetrySpec == PaperIdle /\ LiveIdle /\ StoreIdle /\ OutcomesIdle /\ JobsIdle

SpecRetry == InitRetrySpec /\ [][BuyOrder]_vars

NextJobs == JobStart \/ JobSetup \/ JobStep

InitJobsSpec == PaperIdle /\ LiveIdle /\ StoreIdle /\ OutcomesIdle /\ JobsIdle

SpecJobs == InitJobsSpec /\ [][NextJobs]_vars

NextCrash == PaperCycle \/ PaperCycleKilled \/ NextDay

InitCrashSpec == InitPaper /\ LiveIdle /\ StoreIdle /\ OutcomesIdle /\ JobsIdle

SpecCrash == InitCrashSpec /\ [][NextCrash]_vars

InitExitSpec == PaperIdle /\ LiveIdle /\ StoreIdle /\ OutcomesIdle /\ JobsIdle

SpecExit == InitExitSpec /\ [][PaperExitPass]_vars

InitRulesSpec == PaperIdle /\ LiveIdle /\ StoreIdle /\ OutcomesIdle /\ JobsIdle

SpecRules == InitRulesSpec /\ [][CompareSellRules]_vars

InitTrainingSpec == PaperIdle /\ LiveIdle /\ StoreIdle /\ OutcomesIdle /\ JobsIdle

SpecTraining == InitTrainingSpec /\ [][TrainingReport]_vars

\* The position caps of both ledgers (src/jobs/run_hourly.py).
\* The hourly job loads PAPER_MAX_POSITIONS again at every start: the cap can be
\* lowered between two cycles.
SetPaperMaxPositions ==
    /\ cyc # NoCycle
    /\ \E n \in MaxPositions :
          /\ n # paper_settings.max_positions
          /\ paper_settings' = [paper_settings EXCEPT !.max_positions = n]
    /\ UNCHANGED <<paper_orders, paper_positions, paper_accounts, cyc, today,
                   liveVars, storeVars, outcomeVars, jobVars>>

\* No table is shared by the two ledgers: a behaviour follows the cycles of one.
LiveUntouched == live_run = NoRun /\ live_trade_state = "unset"

CapPaper ==
    /\ LiveUntouched
    /\ PaperPositionsCycle \/ NextDay \/ SetPaperMaxPositions

CapLive == cyc = NoCycle /\ NextLive

NextCap == CapPaper \/ CapLive

InitCapSpec ==
    /\ PaperIdle /\ LiveStore /\ live_settings = LiveSettingsOf(TRUE, TRUE, TRUE)
    /\ StoreIdle /\ OutcomesIdle /\ JobsIdle

SpecCap == InitCapSpec /\ [][NextCap]_vars

InitProviderSpec == PaperIdle /\ LiveIdle /\ StoreIdle /\ OutcomesIdle /\ JobsIdle

SpecProvider == InitProviderSpec /\ [][PlaceOrderCall]_vars

InitChatSpec ==
    /\ PaperIdle /\ LiveStore /\ StoreIdle /\ OutcomesIdle
    /\ live_settings \in {LiveSettingsOf(TRUE, FALSE, TRUE), LiveSettingsOf(FALSE, FALSE, TRUE)}
    /\ strategy_experiments = <<>> /\ lab = NoLab /\ overlay = NoOverlay
    /\ rebalance = NoRebalance(0) /\ buy = NoBuy /\ job = NoJob /\ crash = NoCrash
    /\ exit_pass = NoExitPass /\ sell_rules = NoSellRules /\ training = NoTraining
    /\ order_call = NoOrderCall
    /\ chat \in {[NoChat EXCEPT !.allow_chat = a] : a \in AllowChats}

SpecChat == InitChatSpec /\ [][NextChat]_vars

-----------------------------------------------------------------------------
(* Properties of the paper ledger *)

\* The orders a cycle appended: the rows run_paper_trading stamped with its run_id.
CycleOrders(k) == SelectSeq(paper_orders, LAMBDA o : o.run_id = k)

\* What one order adds to cash: + qty*price - fee for a SELL, - (qty*price + fee) for a BUY.
CashEffect(o) ==
    IF o.side = "SELL" THEN o.qty * o.price - o.fee ELSE 0 - (o.qty * o.price + o.fee)

RECURSIVE CashEffects(_)
CashEffects(os) == IF os = <<>> THEN 0 ELSE CashEffect(Head(os)) + CashEffects(Tail(os))

\* A step that is one call of run_paper_trading.
IsPaperCycleStep == paper_accounts' # paper_accounts

\* C1 (paper daily order budget): a cycle appends at most
\* max(0, max_trades_per_day - orders already dated today) orders, all dated
\* today; no date ever has more than max_trades_per_day orders; a cycle that
\* starts with the budget exhausted appends no order, leaves paper_positions as
\* it was and appends exactly one account row.
C1_Step ==
    IsPaperCycleStep =>
        LET limit == paper_settings.max_trades_per_day
            before == Cardinality({i \in 1..Len(paper_orders) : paper_orders[i].day = today})
            n == Len(paper_orders') - Len(paper_orders)
        IN  /\ n >= 0
            /\ SubSeq(paper_orders', 1, Len(paper_orders)) = paper_orders
            /\ n <= (IF limit - before > 0 THEN limit - before ELSE 0)
            /\ \A i \in (Len(paper_orders) + 1)..Len(paper_orders') :
                  paper_orders'[i].day = today
            /\ \A d \in 1..today :
                  Cardinality({i \in 1..Len(paper_orders') : paper_orders'[i].day = d}) <= limit
            /\ before >= limit =>
                  /\ n = 0
                  /\ paper_positions' = paper_positions
                  /\ Len(paper_accounts') = Len(paper_accounts) + 1
                  /\ SubSeq(paper_accounts', 1, Len(paper_accounts)) = paper_accounts

C1_PaperDailyBudget == [][C1_Step]_vars

\* C1 witness: a cycle found the day's budget used up while positions were open.
C1_Witness ==
    /\ cyc # NoCycle
    /\ cyc.limit
    /\ paper_positions # <<>>
    /\ Cardinality({i \in 1..Len(paper_orders) : paper_orders[i].day = today})
          = paper_settings.max_trades_per_day

\* The account row cycle k appended, and the one before it.
AccountOf(k) == paper_accounts[k + 1]
AccountBefore(k) == paper_accounts[k]

\* Orders dated like cycle k's account row and placed by earlier cycles.
OrdersBefore(k) ==
    Cardinality({i \in 1..Len(paper_orders) :
                    paper_orders[i].day = AccountOf(k).day /\ paper_orders[i].run_id < k})

\* Every order of the last cycle is priced at the quoted level moved by the
\* slippage against the trader, and carries the fee on its gross amount.
LastOrdersPriced ==
    \A i \in 1..Len(paper_orders) :
        LET o == paper_orders[i]
            quoted == cyc.market_price[o.ticker]
            slip == paper_settings.rates.slippage_bps
        IN  o.run_id = cyc.run_id =>
              /\ o.side = "SELL" => o.price * BPS = quoted * (BPS - slip)
              /\ o.side = "BUY" => o.price * BPS = quoted * (BPS + slip)
              /\ o.fee * BPS = o.qty * o.price * paper_settings.rates.fee_bps

\* C3 as claimed: the cash a cycle stores is the latest stored cash plus the
\* proceeds of its SELLs minus the costs of its BUYs, and nothing else.
C3_CashConservationAsClaimed ==
    cyc # NoCycle =>
        /\ AccountOf(cyc.run_id).cash =
              AccountBefore(cyc.run_id).cash + CashEffects(CycleOrders(cyc.run_id))
        /\ LastOrdersPriced

\* C3 amended: the same, starting from initial_cash instead of the latest stored
\* cash when that cash is <= 0 and no order is dated with the cycle's date yet.
C3_CashConservation ==
    cyc # NoCycle =>
        LET k == cyc.run_id
            start == IF AccountBefore(k).cash <= 0 /\ OrdersBefore(k) = 0
                     THEN paper_settings.initial_cash
                     ELSE AccountBefore(k).cash
        IN  /\ AccountOf(k).cash = start + CashEffects(CycleOrders(k))
            /\ LastOrdersPriced

\* C3 witness: a cycle that started from a stored cash of 0 on a fresh date sold
\* one position and bought one.
C3_Witness ==
    /\ cyc # NoCycle
    /\ AccountBefore(cyc.run_id).cash <= 0
    /\ OrdersBefore(cyc.run_id) = 0
    /\ \E i, j \in 1..Len(paper_orders) :
          /\ paper_orders[i].run_id = cyc.run_id /\ paper_orders[i].side = "SELL"
          /\ paper_orders[j].run_id = cyc.run_id /\ paper_orders[j].side = "BUY"

\* The mark price the specification gives a held ticker: the market-state price,
\* else the fallback price, else the average cost.
ClaimedMark(pos) ==
    IF cyc.market_price[pos.ticker] # NoPrice THEN cyc.market_price[pos.ticker]
    ELSE IF cyc.fallback_price[pos.ticker] # NoPrice THEN cyc.fallback_price[pos.ticker]
    ELSE pos.avg_price

RECURSIVE ClaimedValue(_)
ClaimedValue(ps) ==
    IF ps = <<>> THEN 0 ELSE ClaimedMark(Head(ps)) * Head(ps).qty + ClaimedValue(Tail(ps))

C6_EntryThresholdGate ==
    cyc # NoCycle =>
        /\ Len(cyc.scores) =
              Cardinality({i \in 1..Len(paper_orders) :
                  paper_orders[i].run_id = cyc.run_id /\ paper_orders[i].side = "BUY"})
        /\ \A i \in 1..Len(cyc.scores) : cyc.scores[i] >= cyc.threshold
        /\ \A i \in 1..Len(paper_orders) :
              (paper_orders[i].run_id = cyc.run_id /\ paper_orders[i].side = "BUY")
                  => paper_orders[i].ticker \notin cyc.below

\* C6 witness: with all the initial cash, no position and no order placed, a
\* cycle was offered a candidate below the threshold and bought nothing.
C6_Witness ==
    /\ cyc # NoCycle
    /\ cyc.run_id = 1
    /\ cyc.below # {}
    /\ paper_orders = <<>>
    /\ paper_positions = <<>>
    /\ AccountOf(1).cash = DefaultCash

-----------------------------------------------------------------------------
(* Properties of the live ledger *)

\* The live_orders rows written by cycle k.
RowsOfRun(k) == Cardinality({i \in 1..Len(live_orders) : live_orders[i].run_id = k})

\* The live_orders rows dated d that earlier cycles wrote.
RowsBefore(k, d) ==
    Cardinality({i \in 1..Len(live_orders) :
                    live_orders[i].day = d /\ live_orders[i].run_id < k})

\* What cycle k, dated d, may still write.
Remainder(k, d) == Max(0, live_settings.live_max_trades_per_day - RowsBefore(k, d))

\* Every cycle's rows are within the remainder it started with.
LiveRowsWithinBudget ==
    /\ \A i \in 1..Len(live_orders) :
          RowsOfRun(live_orders[i].run_id)
              <= Remainder(live_orders[i].run_id, live_orders[i].day)
    /\ live_run.run_id > 0 =>
          RowsOfRun(live_run.run_id) <= Remainder(live_run.run_id, live_run.day)

\* C2 as claimed: the rows a live cycle writes are within the remainder, and a
\* cycle whose remainder is 0 returns daily_limit_reached without calling
\* place_cash_order.
C2_LiveDailyBudgetAsClaimed ==
    /\ LiveRowsWithinBudget
    /\ (live_run.run_id > 0 /\ live_run.pc = "idle"
            /\ Remainder(live_run.run_id, live_run.day) = 0)
          => (live_run.status = "daily_limit_reached" /\ live_run.calls = 0)

\* C2 amended: the rows a live cycle writes are within the remainder; a cycle whose
\* remainder is 0 never calls place_cash_order; it returns daily_limit_reached when
\* it gets as far as the budget check, and otherwise live_env_off,
\* provider_unsupported, balance_error or standby.
C2_LiveDailyBudget ==
    /\ LiveRowsWithinBudget
    /\ (live_run.run_id > 0 /\ Remainder(live_run.run_id, live_run.day) = 0)
          => /\ live_run.calls = 0
             /\ live_run.pc = "idle"
             /\ live_run.checked => live_run.status = "daily_limit_reached"
             /\ ~live_run.checked =>
                   live_run.status \in {"live_env_off", "provider_unsupported",
                                        "balance_error", "standby"}

\* C2 witness: a cycle found the day's budget used up by a submitted and a failed
\* order of an earlier cycle and returned daily_limit_reached.
C2_Witness ==
    /\ live_run.pc = "idle"
    /\ live_run.status = "daily_limit_reached"
    /\ live_run.calls = 0
    /\ RowsOfRun(live_run.run_id) = 0
    /\ \E i, j \in 1..Len(live_orders) :
          /\ live_orders[i].day = live_run.day /\ live_orders[i].status = "submitted"
          /\ live_orders[j].day = live_run.day /\ live_orders[j].status = "failed"

-----------------------------------------------------------------------------
(* Properties of the position tables *)

UniqueTickers(table) ==
    \A i, j \in 1..Len(table) : table[i].ticker = table[j].ticker => i = j

\* C5 (position uniqueness): after a completed replace, paper_positions holds
\* each ticker at most once, only rows with qty > 0, and exactly the holdings of
\* the cycle; after a completed broker snapshot sync live_positions holds each
\* ticker at most once, only rows with qty > 0, and exactly the snapshot's holdings.
C5_PositionUniqueness ==
    /\ (cyc # NoCycle /\ cyc.replaced) =>
          /\ UniqueTickers(paper_positions)
          /\ \A i \in 1..Len(paper_positions) : paper_positions[i].qty > 0
          /\ paper_positions = cyc.holdings
    /\ live_sync.completed =>
          /\ UniqueTickers(live_positions)
          /\ \A i \in 1..Len(live_positions) : live_positions[i].qty > 0
          /\ {[ticker |-> r.ticker, qty |-> r.qty] :
                  r \in {live_sync.positions[i] : i \in
                            {j \in 1..Len(live_sync.positions) :
                                live_sync.positions[j].qty > 0}}}
                = {live_positions[i] : i \in 1..Len(live_positions)}

\* C5 witness: a paper cycle sold one ticker and replaced the table with another
\* holding, and a snapshot with a zero-quantity row replaced a non-empty
\* live_positions.
C5_Witness ==
    /\ cyc # NoCycle /\ cyc.replaced
    /\ paper_positions # <<>>
    /\ \E i \in 1..Len(paper_orders) :
          /\ paper_orders[i].run_id = cyc.run_id /\ paper_orders[i].side = "SELL"
          /\ \A j \in 1..Len(paper_positions) :
                paper_positions[j].ticker # paper_orders[i].ticker
    /\ live_sync.completed
    /\ live_sync.replaced_rows > 0
    /\ Len(live_positions) < Len(live_sync.positions)

-----------------------------------------------------------------------------
(* Properties of the strategy store *)

ActiveCount(table) == Len(ActiveRows(table))

\* C7 (atomic supersede of the active row): in every state of the store another
\* process can observe, the weights table has exactly one row with active=1,
\* and so has strategy_state.
C7_ExactlyOneActive ==
    /\ ActiveCount(weights) = 1
    /\ ActiveCount(strategy_state) = 1

\* Every weight of the vector is >= 0 and the weights sum to 1.
ValidWeights(vec) ==
    /\ \A k \in Keys : vec.w[k] >= 0
    /\ vec.den > 0
    /\ SumOver(vec.w, Keys) = vec.den

IsTuneStep == tune'.calls = tune.calls + 1

\* C8 (weight invariant): the store starts with, and every tune_weights run
\* leaves, active vectors whose weights are all >= 0 and sum to 1; a run whose
\* adjusted weights sum to <= 0 returns OFF(invalid-sum) with the base weights
\* and leaves the weights table as it was.
C8_Step ==
    /\ \A i \in 1..Len(weights') : weights'[i].active => ValidWeights(weights'[i].weights)
    /\ ValidWeights(LoadActiveWeights(weights'))
    /\ (IsTuneStep /\ tune'.adjusted.done /\ tune'.adjusted.sum <= 0)
          => /\ tune'.status = Status("OFF(invalid-sum)", 0)
             /\ tune'.returned = tune'.base
             /\ weights' = weights

C8_WeightInvariant ==
    /\ ValidWeights(LoadActiveWeights(weights))
    /\ [][C8_Step]_vars

\* C8 witness: the second of two runs lowered a positive weight below 0, which
\* was stored as 0 in the vector it activated.
C8_Witness ==
    /\ tune.calls = 2
    /\ tune.status = Status("ON", 0)
    /\ tune.base.w["volatility_shock"] > 0
    /\ tune.returned.w["volatility_shock"] = 0
    /\ Len(weights) = MaxTuneRuns + 1
    /\ tune.base = weights[Len(weights) - 1].weights
    /\ LoadActiveWeights(weights) = tune.returned

\* C9 (warm-up gates): a tune_weights run with fewer than warmup_days dated 1d
\* outcomes returns the base weights with OFF(warmup<14d); one that passes that
\* gate with fewer than min_samples samples returns them with OFF(sample<60);
\* neither deactivates or inserts a weights row.
C9_Step ==
    IsTuneStep =>
        /\ tune'.n_days < WarmupDays
              => /\ tune'.status = Status("OFF(warmup<{warmup_days}d)", WarmupDays)
                 /\ tune'.returned = tune'.base
                 /\ weights' = weights
        /\ (tune'.n_days >= WarmupDays /\ tune'.n_rows < MinSamples)
              => /\ tune'.status = Status("OFF(sample<{min_samples})", MinSamples)
                 /\ tune'.returned = tune'.base
                 /\ weights' = weights

C9_WarmupGates == [][C9_Step]_vars

\* C9 witness: after a run that activated a tuned vector, a run with 10 dated
\* outcomes and 60 samples was held back by the warm-up gate.
C9_Witness ==
    /\ tune.calls = 2
    /\ Len(weights) = 2
    /\ tune.n_days = 10
    /\ tune.n_rows = 60
    /\ tune.status.text = "OFF(warmup<{warmup_days}d)"
    /\ tune.base = weights[Len(weights)].weights
    /\ tune.base # DefaultWeights

-----------------------------------------------------------------------------
(* Properties of the outcomes table *)

UniqueOutcomeKeys(table) ==
    \A a, b \in table :
        (a.run_id = b.run_id /\ a.ticker = b.ticker /\ a.horizon = b.horizon) => a = b

IsFillStep == fill'.calls = fill.calls + 1

\* C10 (outcome upsert idempotence): a fill_outcomes call that follows another
\* with the same runs, candidates, price snapshots, fallback map and elapsed
\* horizons writes no row, returns 0 and leaves the outcomes table as it was;
\* the table never has two rows with the same (run_id, ticker, horizon).
C10_Step ==
    /\ UniqueOutcomeKeys(outcomes')
    /\ (IsFillStep /\ fill.calls > 0 /\ fill'.data = fill.data)
          => /\ fill'.inserted = 0
             /\ outcomes' = outcomes

C10_FillIdempotent == [][C10_Step]_vars

\* C10 witness: a repeated call found rows resolved from a later snapshot and
\* from the fallback map, one of them replaced by an earlier call, and wrote none.
C10_Witness ==
    /\ fill.repeated
    /\ fill.inserted = 0
    /\ \E o \in outcomes : o.price_later = 120
    /\ \E o \in outcomes : o.price_later # 120 /\ o.horizon = "1h"
    /\ Cardinality(outcomes) >= 3

-----------------------------------------------------------------------------
(* Properties of the strategy lab *)

IsLabStep == lab'.calls = lab.calls + 1

\* C11 (strategy lab sample gate): a run_strategy_lab call in which every
\* combination of the grid has fewer than min_runs samples returns
\* OFF(sample<{min_runs}) and leaves strategy_experiments as it was; the
\* combination a call selects has at least min_runs samples.
C11_Step ==
    IsLabStep =>
        /\ (\A i \in 1..Len(LabGrid) : lab'.samples[i] < lab'.min_runs)
              => /\ lab'.status = Status("OFF(sample<{min_runs})", lab'.min_runs)
                 /\ strategy_experiments' = strategy_experiments
        /\ lab'.best # 0 => lab'.samples[lab'.best] >= lab'.min_runs

C11_LabSampleGate == [][C11_Step]_vars

-----------------------------------------------------------------------------
(* Properties of the risk overlay *)

\* The second and third adjustments of _build_risk_overlay, read off the
\* measurements of the call.
OverlayFailHeavy ==
    overlay.stats.total >= 3 /\ overlay.stats.failed * 10 >= overlay.stats.total * 6

OverlayCashLow ==
    IF overlay.snapshot.total_asset > 0
    THEN (overlay.snapshot.cash \div 100) * 1000
            < (overlay.snapshot.total_asset \div 100) * ((LiveCashReservePct * 7) \div 100)
    ELSE LiveCashReservePct > 0

OverlayDayLoss ==
    overlay.calls > 0 /\ overlay.day_return <= -LiveRiskOffDayLossPct

\* C12 as stated: whenever day_return <= -live_risk_off_day_loss_pct the overlay is
\* "defensive" and its effective threshold is base_threshold + 5, at most 95.
C12_DefensiveOnDayLossAsClaimed ==
    OverlayDayLoss =>
        /\ overlay.risk.mode = "defensive"
        /\ overlay.risk.effective_threshold = Min(95, overlay.base_threshold + 5)

\* C12, amended: whenever day_return <= -live_risk_off_day_loss_pct the overlay is
\* "defensive" and its effective threshold is base_threshold + 5, plus 2 when at
\* least 3 orders were placed today and 60% of them failed, plus 2 when the cash
\* ratio is under 70% of the cash reserve, the sum clamped to [40, 95].
C12_DefensiveOnDayLoss ==
    OverlayDayLoss =>
        /\ overlay.risk.mode = "defensive"
        /\ overlay.risk.effective_threshold =
              Clamp(overlay.base_threshold + 5
                      + (IF OverlayFailHeavy THEN 2 ELSE 0)
                      + (IF OverlayCashLow THEN 2 ELSE 0), 40, 95)

\* A day loss exactly at the limit, with both further adjustments stacked on top.
C12_Witness ==
    /\ OverlayDayLoss
    /\ overlay.day_return = -LiveRiskOffDayLossPct
    /\ overlay.account_drawdown = 0 /\ overlay.unrealized_ret = 0
    /\ OverlayFailHeavy /\ OverlayCashLow
    /\ overlay.risk.effective_threshold = overlay.base_threshold + 9

-----------------------------------------------------------------------------
(* Properties of the strategy state *)

\* The fixed parameter triple of a regime.
ParamTriple(regime) ==
    <<regime, RegimeParams(regime).entry_score_threshold,
      RegimeParams(regime).position_scale>>

IsUpdateStep == rebalance'.completed = rebalance.completed + 1

\* A call whose decided regime and parameters are those of the state it loads
\* leaves the table alone and answers UNCHANGED.
C13_NoOpStep ==
    IsUpdateStep /\ rebalance'.current = ParamTriple(rebalance'.decided)
        => /\ strategy_state' = strategy_state
           /\ rebalance'.status = "UNCHANGED"

\* Two completed calls in a row with the same stats insert at most one row.
C13_SameStatsTwice ==
    rebalance.completed >= 2 /\ rebalance.stats = rebalance.prev_stats
        => Len(strategy_state) - rebalance.prev_rows_before <= 1

\* After a completed call the active state is the triple of the decided regime.
C13_ActiveIsDecided ==
    rebalance.completed >= 1
        => /\ Triple(LoadStrategyState(strategy_state))
                = ParamTriple(rebalance.decided)
           /\ rebalance.returned = Triple(LoadStrategyState(strategy_state))
           /\ Len(ActiveRows(strategy_state)) <= 1

\* C13: update_strategy_state with stats whose decided regime and parameters equal
\* the active state writes nothing and returns UNCHANGED; two successive calls with
\* the same stats insert at most one row; and after any sequence of completed calls
\* the active state's (regime, entry_score_threshold, position_scale) is the fixed
\* triple of the most recently decided regime.
C13_StrategyStateNoOp ==
    /\ [][C13_NoOpStep]_vars
    /\ [](C13_SameStatsTwice /\ C13_ActiveIsDecided)

\* Two completed calls with the same stats, the first of which changed the regime
\* and the second of which was the no-op.
C13_Witness ==
    /\ rebalance.completed >= 2
    /\ rebalance.stats = rebalance.prev_stats
    /\ rebalance.status = "UNCHANGED"
    /\ rebalance.decided = "AGGRESSIVE"
    /\ Len(strategy_state) = rebalance.prev_rows_before + 1

\* The two non-neutral rows of the decision table, on the stats of the last call.
TableAggressive ==
    /\ rebalance.stats.n >= 20
    /\ rebalance.stats.win_rate_1d >= 580
    /\ rebalance.stats.avg_ret_1d >= 20
    /\ rebalance.stats.paper_pnl_day >= 0

TableConservative ==
    /\ rebalance.stats.n >= 20
    /\ \/ rebalance.stats.win_rate_1d <= 450
       \/ rebalance.stats.avg_ret_1d <= -15
       \/ rebalance.stats.paper_pnl_day < 0

\* C14: the decided regime is AGGRESSIVE iff n>=20 and win_rate>=0.58 and
\* avg_ret>=0.002 and pnl_day>=0, CONSERVATIVE iff n>=20 and (win_rate<=0.45 or
\* avg_ret<=-0.0015 or pnl_day<0), NEUTRAL otherwise; the two conditions never hold
\* together, n<20 gives NEUTRAL, and the regime maps to CONSERVATIVE(62.0, 0.6),
\* NEUTRAL(55.0, 1.0), AGGRESSIVE(50.0, 1.25).
C14_RegimeTable ==
    rebalance.completed >= 1 =>
        /\ rebalance.decided = "AGGRESSIVE" <=> TableAggressive
        /\ rebalance.decided = "CONSERVATIVE" <=> TableConservative
        /\ rebalance.decided = "NEUTRAL" <=> ~TableAggressive /\ ~TableConservative
        /\ ~(TableAggressive /\ TableConservative)
        /\ rebalance.stats.n < 20 => rebalance.decided = "NEUTRAL"
        /\ rebalance.returned \in { <<"CONSERVATIVE", 62, 60>>, <<"NEUTRAL", 55, 100>>,
                                    <<"AGGRESSIVE", 50, 125>> }
        /\ rebalance.returned[1] = rebalance.decided

\* Every regime is decided, the non-neutral ones on their limits and NEUTRAL both
\* for a short sample and for a long one between the limits.
C14_Witness ==
    /\ rebalance.completed >= 2
    /\ rebalance.stats = [n |-> 20, win_rate_1d |-> 580, avg_ret_1d |-> 20,
                          paper_pnl_day |-> 0]
    /\ rebalance.decided = "AGGRESSIVE"
    /\ rebalance.prev_stats = [n |-> 20, win_rate_1d |-> 579, avg_ret_1d |-> -15,
                               paper_pnl_day |-> 0]
    /\ rebalance.returned = <<"AGGRESSIVE", 50, 125>>

-----------------------------------------------------------------------------
(* Properties of the live cycle under broker rejections *)

\* live_orders rows of a run with a status
RowsOfRunWith(run_id, status) ==
    Cardinality({i \in 1..Len(live_orders) :
                    /\ live_orders[i].run_id = run_id
                    /\ live_orders[i].status = status})

\* a step of a pass that called place_cash_order
IsOrderStep == live_run'.calls > live_run.calls

\* Such a step writes one row, failed exactly when the order stayed rejected, uses
\* one unit of the budget and goes on to the next position or candidate.
C15_OrderStep ==
    IsOrderStep =>
        /\ Len(live_orders') = Len(live_orders) + 1
        /\ SubSeq(live_orders', 1, Len(live_orders)) = live_orders
        /\ live_orders'[Len(live_orders')].run_id = live_run.run_id
        /\ live_orders'[Len(live_orders')].status =
              (IF live_run'.rejected = live_run.rejected + 1 THEN "failed" ELSE "submitted")
        /\ live_run'.rejected \in {live_run.rejected, live_run.rejected + 1}
        /\ live_run'.pc = live_run.pc
        /\ live_run'.budget_left = live_run.budget_left - 1
        /\ IF live_run.work.loop = "exit"
           THEN live_run'.work.positions_now = Tail(live_run.work.positions_now)
           ELSE live_run'.work.ranked = Tail(live_run.work.ranked)

\* The rows of the cycle are its rejected orders, failed, and its accepted ones.
C15_Rows ==
    live_run.run_id > 0 =>
        /\ RowsOfRunWith(live_run.run_id, "failed") = live_run.rejected
        /\ RowsOfRunWith(live_run.run_id, "submitted") = live_run.submitted
        /\ live_run.failed = live_run.rejected

\* A cycle that went through its passes
CycleReturned ==
    /\ live_run.pc = "idle" /\ live_run.checked
    /\ live_run.status # "daily_limit_reached"

C15_Status ==
    CycleReturned =>
        /\ live_run.status = "orders_submitted"
              <=> live_run.submitted > 0 /\ live_run.rejected = 0
        /\ live_run.status = "partial_failed"
              <=> live_run.submitted > 0 /\ live_run.rejected > 0
        /\ live_run.status = "all_failed"
              <=> live_run.submitted = 0 /\ live_run.rejected > 0
        /\ live_run.status = "no_order"
              <=> live_run.submitted = 0 /\ live_run.rejected = 0

\* A pass is never left with work it could do: it stops only at the end of its
\* list, at the end of the budget or, for entries, of the slots or the buy budget.
C15_PassGoesOn ==
    /\ live_run.pc = "exit" /\ ExitContinues(live_run) => ENABLED LiveExitStep
    /\ live_run.pc = "entry" /\ EntryContinues(live_run) => ENABLED LiveEntryStep

\* C15: whatever place_cash_order calls fail, execute_live_trading runs to its
\* return; each sell or buy that stays rejected (for a buy, after the retry when one
\* is made) is one live_orders row with status failed; the positions and candidates
\* after it are still processed while budget remains; and the returned status is
\* orders_submitted, partial_failed, all_failed or no_order according to whether the
\* submitted and failed counts are positive.
C15_RejectionsNeverAbort ==
    /\ [][C15_OrderStep]_vars
    /\ [](C15_Rows /\ C15_Status /\ C15_PassGoesOn)

\* A cycle whose sell was rejected went on to submit a buy and returned
\* partial_failed.
C15_Witness ==
    /\ CycleReturned
    /\ live_run.status = "partial_failed"
    /\ \E i, j \in 1..Len(live_orders) :
          /\ i < j
          /\ live_orders[i].run_id = live_run.run_id /\ live_orders[j].run_id = live_run.run_id
          /\ live_orders[i].side = "SELL" /\ live_orders[i].status = "failed"
          /\ live_orders[j].side = "BUY" /\ live_orders[j].status = "submitted"

-----------------------------------------------------------------------------
(* Properties of the fund-limit retry *)

\* C16: a BUY rejected with a fund-limit error, with live_retry_on_fund_error on,
\* is retried exactly once, at 60% of the broker-reported buyable quantity when one
\* is reported and otherwise at 50-60% of the original quantity, and is recorded
\* as failed if the retry is rejected too; with the flag off, or for any other
\* error, no retry is made.
C16_FundLimitRetry ==
    buy.n > 0 =>
        IF buy.result.fund /\ buy.retry_on_fund_error
        THEN /\ buy.result.calls = 2
             /\ IF buy.retry_cap > 0
                THEN buy.result.retry_qty = (buy.retry_cap * 6) \div 10
                ELSE /\ buy.qty * 5 <= buy.result.retry_qty * 10
                     /\ buy.result.retry_qty * 10 <= buy.qty * 6
             /\ buy.outcome = "fund_retry_error" => buy.result.status = "failed"
        ELSE buy.outcome # "ok" => buy.result.calls = 1 /\ buy.result.status = "failed"

-----------------------------------------------------------------------------
(* Properties of the scheduled jobs *)

\* C17: any exception raised while a scheduled operation runs is caught at its top
\* level, an "<operation> error" notification is sent and the operation exits with
\* a non-zero status; no run ends after a failure with neither a normal nor an
\* error notification.
C17_FailureNotified ==
    job.pc = "done" /\ job.raised =>
        /\ job.caught
        /\ job.sent # <<>>
        /\ job.sent[Len(job.sent)] = "error"
        /\ job.exit # 0

\* The position of a call among the calls the running job has made, 0 if not made.
StepIndex(step) ==
    IF \E i \in 1..Len(job.steps) : job.steps[i] = step
    THEN CHOOSE i \in 1..Len(job.steps) : job.steps[i] = step
    ELSE 0

\* Both calls made, the first before the second.
Before(a, b) == StepIndex(a) > 0 /\ StepIndex(a) < StepIndex(b)

\* C18: in every nightly run the steps execute in the order outcome attribution,
\* weight tuning, regime/strategy-state update, strategy-lab search, training
\* report; in particular the strategy state is updated before the strategy lab runs.
C18_NightlyStepOrder ==
    job.op = "nightly" /\ StepIndex("build_training_report") > 0
                       /\ StepIndex("run_strategy_lab") > 0 =>
        /\ Before("fill_outcomes", "tune_weights")
        /\ Before("tune_weights", "update_strategy_state")
        /\ Before("update_strategy_state", "run_strategy_lab")
        /\ Before("run_strategy_lab", "build_training_report")

-----------------------------------------------------------------------------
(* Properties of the paper ledger across interruptions *)

\* The quantity of a ticker in the positions table, and the one the order log
\* leaves: bought minus sold.
RECURSIVE QtySum(_)
QtySum(rows) == IF rows = <<>> THEN 0 ELSE Head(rows).qty + QtySum(Tail(rows))

HeldQty(t) == QtySum(SelectSeq(paper_positions, LAMBDA p : p.ticker = t))

LoggedQty(t) ==
    QtySum(SelectSeq(paper_orders, LAMBDA o : o.ticker = t /\ o.side = "BUY"))
      - QtySum(SelectSeq(paper_orders, LAMBDA o : o.ticker = t /\ o.side = "SELL"))

\* The cash the store holds is the cash after every order of the log: the cycle of
\* each order has appended its account row.
OrdersBooked ==
    \A i \in 1..Len(paper_orders) : paper_orders[i].run_id < Len(paper_accounts)

\* C19: whenever a cycle may start, also after a cycle was interrupted between two
\* of its store writes, the latest account cash, the positions table and the order
\* log describe the same portfolio: the positions are those the order log leaves
\* (none bought without its cost deducted, none missing from an emptied table) and
\* no order counts against the budget without its effect on cash being stored.
C19_LedgerConsistent ==
    /\ \A t \in Tickers : HeldQty(t) = LoggedQty(t)
    /\ OrdersBooked

-----------------------------------------------------------------------------
(* Properties of the paper exit pass *)

\* The i-th loaded position is gone after the pass.
ExitSold(i) ==
    \A k \in 1..Len(exit_pass.after.positions) :
        exit_pass.after.positions[k].ticker # exit_pass.positions[i].ticker

\* Budget units left when the pass comes to the i-th position.
ExitBudgetAt(i) ==
    exit_pass.budget_left - Cardinality({j \in 1..(i - 1) : ExitSold(j)})

\* The rule of the claim on the market row of the i-th position.
ExitRuleAt(i) ==
    LET row == exit_pass.market[exit_pass.positions[i].ticker]
    IN  row.return_1h <= -350 \/ row.return_1h >= 600 \/ row.drawdown_20 < -900

\* C20: in the exit pass a held position whose ticker has a market-state row is
\* sold iff budget remains and (return_1h <= -0.035 or return_1h >= 0.06 or
\* drawdown_20 < -0.09); a sale removes the whole position, appends exactly one
\* SELL order for the full held quantity and consumes one budget unit; a position
\* without a market-state row is never sold.
C20_PaperExitRule ==
    exit_pass.n > 0 =>
        LET sold == {i \in 1..Len(exit_pass.positions) : ExitSold(i)}
            kept == SelectSeq(exit_pass.positions,
                              LAMBDA p : \A i \in sold : exit_pass.positions[i].ticker # p.ticker)
            orders == exit_pass.after.orders
        IN  /\ \A i \in 1..Len(exit_pass.positions) :
                  IF HasRow(exit_pass.market, exit_pass.positions[i].ticker)
                  THEN ExitSold(i) <=> ExitBudgetAt(i) > 0 /\ ExitRuleAt(i)
                  ELSE ~ExitSold(i)
            /\ exit_pass.after.positions = kept
            /\ Len(orders) = Cardinality(sold)
            /\ \A i \in sold :
                  Cardinality({k \in 1..Len(orders) :
                                  /\ orders[k].side = "SELL"
                                  /\ orders[k].ticker = exit_pass.positions[i].ticker
                                  /\ orders[k].qty = exit_pass.positions[i].qty}) = 1
            /\ exit_pass.after.budget_left = exit_pass.budget_left - Cardinality(sold)

\* Two positions that both meet the rule, the first on the take-profit limit, with
\* one budget unit: the first is sold whole, the second is kept for want of budget.
C20_Witness ==
    /\ exit_pass.n > 0
    /\ Len(exit_pass.positions) = 2
    /\ exit_pass.budget_left = 1
    /\ HasRow(exit_pass.market, exit_pass.positions[1].ticker)
    /\ HasRow(exit_pass.market, exit_pass.positions[2].ticker)
    /\ exit_pass.market[exit_pass.positions[1].ticker].return_1h = 600
    /\ ExitRuleAt(2)
    /\ ExitSold(1) /\ ~ExitSold(2)
    /\ Len(exit_pass.after.orders) = 1
    /\ exit_pass.after.budget_left = 0

-----------------------------------------------------------------------------
(* Properties of the live sell rule *)

\* C21: for every (return_1h, drawdown_20) for which the paper sell rule sells, the
\* live sell rule sells too, whatever flow_score, score and pnl_pct are; the live
\* rule additionally sells on pnl_pct <= -8% and on the flow conditions.
C21_LiveRefinesPaper ==
    sell_rules.n > 0 =>
        /\ sell_rules.paper => sell_rules.live
        /\ sell_rules.pnl_pct <= -800 => sell_rules.live

-----------------------------------------------------------------------------
(* Properties of the live snapshots *)

IsMidSyncStep == live_run.pc = "exit" /\ live_run'.pc = "entry"

IsPostSyncStep == live_run.pc = "entry" /\ live_run'.pc = "idle"

LastLiveOrder == live_orders'[Len(live_orders')]

\* SELL orders are placed only in the exit pass and BUY orders only in the entry
\* pass; the only way from one pass to the other is the mid-run balance query.
C22_QueryBetweenPasses ==
    /\ IsOrderStep =>
          IF live_run.pc = "exit" THEN LastLiveOrder.side = "SELL"
          ELSE live_run.pc = "entry" /\ LastLiveOrder.side = "BUY"
    /\ live_run.pc = "exit" /\ live_run'.pc # "exit" => IsMidSyncStep
    /\ live_run.pc = "entry" /\ live_run'.pc # "entry" => IsPostSyncStep
    /\ IsMidSyncStep \/ IsPostSyncStep =>
          /\ live_orders' = live_orders
          /\ live_sync'.called
          /\ live_sync'.completed =>
                /\ Len(live_accounts') = Len(live_accounts) + 1
                /\ live_accounts'[Len(live_accounts')].note =
                      (IF IsMidSyncStep THEN "mid-run" ELSE "post-run")
          /\ ~live_sync'.completed => live_accounts' = live_accounts

\* The entry pass starts from the snapshot the mid-run query returned, and from
\* the pre-run snapshot when that query failed.
C22_EntryFromMidSnapshot ==
    IsMidSyncStep =>
        LET snap == IF live_sync'.completed THEN BrokerData(live_sync'.positions)
                    ELSE live_run.work.snap
        IN  /\ live_run'.work = EntryWork(live_run, snap, live_run'.work.ranked)
            /\ live_run'.work.held =
                  {snap.positions[i].ticker : i \in 1..Len(snap.positions)}
            /\ live_run'.work.buy_budget =
                  CalcBuyBudget(snap.cash, snap.total_asset, SumEval(snap.positions),
                                LiveMaxCapitalKrw, live_run.work.risk.reserve_pct)

\* A post-run query that succeeds sets the reported cash, total asset and position
\* count, whatever the two passes did; one that fails leaves them as they were.
C22_PostSnapshotReported ==
    IsPostSyncStep =>
        /\ live_run'.status \in {"orders_submitted", "partial_failed", "all_failed", "no_order"}
        /\ IF live_sync'.completed
           THEN live_run'.reported = ReportOf(BrokerData(live_sync'.positions))
           ELSE live_run'.reported = live_run.reported

\* C22: in a live cycle that reaches the passes the balance is queried after the
\* last exit order and before the first entry order, the entry pass takes its
\* held set, cash and buy budget from that snapshot (from the pre-run snapshot
\* only if the query fails), and a query after the last entry order sets the
\* reported cash, total asset and position count when it succeeds.
C22_LiveResyncOrdering ==
    [][C22_QueryBetweenPasses /\ C22_EntryFromMidSnapshot /\ C22_PostSnapshotReported]_vars

\* A cycle that sold and bought, whose post-run query succeeded and reported a
\* position count other than the pre-run one.
C22_Witness ==
    /\ live_run.pc = "idle" /\ live_run.status = "partial_failed"
    /\ \E i, j \in 1..Len(live_orders) :
          /\ live_orders[i].run_id = live_run.run_id /\ live_orders[i].side = "SELL"
          /\ live_orders[j].run_id = live_run.run_id /\ live_orders[j].side = "BUY"
    /\ live_sync.completed
    /\ live_run.reported = ReportOf(BrokerData(live_sync.positions))
    /\ \E k \in 1..Len(live_accounts) :
          live_accounts[k].note = "mid-run" /\ live_accounts[k].day = live_run.day

-----------------------------------------------------------------------------
(* Properties of the training report *)

TrainingGate(k) == Len(training.report.gates) >= k /\ training.report.gates[k]

\* C23: ready is true iff all six gates pass; the level is READY iff ready and
\* score >= 75, else WATCH iff score >= 60 and the history and order gates pass,
\* else TRAINING; READY implies ready; an empty NAV history gives TRAINING, not
\* ready, score 0; the risk multiplier is 1.0 / 0.6 / 0.35 for the three levels.
C23_ReadinessGating ==
    training.n > 0 =>
        LET rep == training.report
        IN  /\ rep.ready <=> \A k \in 1..6 : TrainingGate(k)
            /\ rep.level = "READY" <=> rep.ready /\ rep.score >= 750
            /\ rep.level = "WATCH" <=>
                  /\ ~(rep.ready /\ rep.score >= 750)
                  /\ rep.score >= 600 /\ TrainingGate(1) /\ TrainingGate(2)
            /\ rep.level \in {"READY", "WATCH", "TRAINING"}
            /\ rep.level = "READY" => rep.ready
            /\ FetchNavFrame(training.rows, training.cutoff) = <<>> =>
                  rep.level = "TRAINING" /\ ~rep.ready /\ rep.score = 0
            /\ rep.risk_plan.mult =
                  (IF rep.level = "READY" THEN 100
                   ELSE IF rep.level = "WATCH" THEN 60 ELSE 35)

\* A report with a score of 75 or more of which a gate fails: WATCH, not ready.
C23_Witness ==
    /\ training.n > 0
    /\ training.report.score >= 750
    /\ ~training.report.ready
    /\ training.report.level = "WATCH"
    /\ training.report.risk_plan.mult = 60

-----------------------------------------------------------------------------
(* Properties of the paper cash *)

\* The orders a paper cycle appends, and the cash it starts from.
NewPaperOrders == SubSeq(paper_orders', Len(paper_orders) + 1, Len(paper_orders'))

CycleStartCash ==
    StartCash(LatestAccountCash(paper_accounts), DailyOrderCount(paper_orders, today),
              paper_settings.initial_cash)

\* The cash left after a list of executed orders.
RECURSIVE CashAfter(_, _)
CashAfter(cash, orders) ==
    IF orders = <<>> THEN cash
    ELSE LET o == Head(orders)
             gross == o.qty * o.price
         IN  CashAfter(IF o.side = "SELL" THEN cash + gross - o.fee
                       ELSE cash - gross - o.fee,
                       Tail(orders))

\* Every BUY of a cycle costs at most the cash available when it is executed,
\* and the account row the cycle appends carries the cash that is left.
C24_BuyWithinCash ==
    Len(paper_orders') > Len(paper_orders) =>
        /\ \A k \in 1..Len(NewPaperOrders) :
              NewPaperOrders[k].side = "BUY" =>
                  NewPaperOrders[k].qty * NewPaperOrders[k].price + NewPaperOrders[k].fee
                      <= CashAfter(CycleStartCash, SubSeq(NewPaperOrders, 1, k - 1))
        /\ Len(paper_accounts') > Len(paper_accounts) =>
              paper_accounts'[Len(paper_accounts')].cash =
                  CashAfter(CycleStartCash, NewPaperOrders)

C24_AccountCash == \A i \in 1..Len(paper_accounts) : paper_accounts[i].cash >= 0

\* C24: no BUY is executed whose qty*exec_price + fee exceeds the cash available
\* at that moment of the entry pass, so the cash of every appended account row
\* is >= 0.
C24_PaperCashNeverNegative == []C24_AccountCash /\ [][C24_BuyWithinCash]_vars

\* A cycle bought with a fee charged and left less cash than one more share costs.
C24_Witness ==
    /\ Len(paper_accounts) > 1
    /\ \E i \in 1..Len(paper_orders) :
          /\ paper_orders[i].side = "BUY" /\ paper_orders[i].fee > 0
          /\ paper_orders[i].run_id = cyc.run_id
          /\ paper_accounts[Len(paper_accounts)].cash < paper_orders[i].price
    /\ paper_accounts[Len(paper_accounts)].note = "paper-run"

-----------------------------------------------------------------------------
(* Properties of the position caps *)

SideCount(orders, side) == Cardinality({i \in 1..Len(orders) : orders[i].side = side})

\* The positions open after the exit pass of a paper cycle.
OpenAfterExit == Len(LoadPositions(paper_positions)) - SideCount(NewPaperOrders, "SELL")

C25_PaperCap ==
    IsPaperCycleStep =>
        LET cap == paper_settings.max_positions
            buys == SideCount(NewPaperOrders, "BUY")
        IN  /\ buys <= Max(0, cap - OpenAfterExit)
            /\ Len(cyc'.holdings) = OpenAfterExit + buys
            /\ OpenAfterExit <= cap => Len(cyc'.holdings) <= cap
            /\ OpenAfterExit > cap => buys = 0

\* The BUY orders of the live cycle in flight, and those recorded as submitted.
LiveBuys(status) ==
    {i \in 1..Len(live_orders) :
        /\ live_orders[i].run_id = live_run.run_id /\ live_orders[i].side = "BUY"
        /\ status \in {"any", live_orders[i].status}}

C25_LiveCap ==
    live_run.pc = "entry" =>
        LET w == live_run.work
            opened == Cardinality(LiveBuys("submitted"))
            held_mid == Cardinality(w.held) - opened
        IN  /\ opened <= Max(0, w.max_pos_effective - held_mid)
            /\ w.slots = Max(0, w.max_pos_effective - held_mid) - opened
            /\ held_mid <= w.max_pos_effective => Cardinality(w.held) <= w.max_pos_effective
            /\ held_mid > w.max_pos_effective => LiveBuys("any") = {}

\* C25: a paper cycle opens at most max(0, max_positions - positions open after
\* its exit pass) new positions and a live cycle at most max(0, max_pos_effective
\* - tickers held in the mid-run snapshot); an open count within the cap before
\* the entry pass stays within it, and above the cap no BUY is made.
C25_PositionCountCap == []C25_LiveCap /\ [][C25_PaperCap]_vars

\* A live entry pass that starts with more tickers held than the scaled cap
\* allows (the pre-run snapshot of two tickers, the risk overlay defensive) and
\* places no BUY.
C25_Witness ==
    /\ live_run.pc = "entry"
    /\ live_run.work.max_pos_effective < LiveMaxPositions
    /\ Cardinality(live_run.work.held) > live_run.work.max_pos_effective
    /\ live_run.work.slots = 0
    /\ LiveBuys("any") = {}

-----------------------------------------------------------------------------
(* Properties of the broker client *)

\* C26: one place_cash_order invocation sends its order request to the broker at
\* most 3 times before it fails; no order request is repeated more than that
\* inside one invocation.
C26_BoundedOrderRequests ==
    order_call.n > 0 => order_call.result.sent <= RequestAttempts

-----------------------------------------------------------------------------
(* Properties of the live-trading switch *)

IsLiveStartStep == live_run'.run_id # live_run.run_id

\* An order is placed only in a cycle that found LIVE_ENABLE true and read the
\* stored switch as on when it started.
C27_OrdersNeedSwitch ==
    /\ IsOrderStep => live_run.pc # "idle"
    /\ IsLiveStartStep /\ live_run'.pc # "idle" =>
          /\ live_settings.live_enable
          /\ live_trade_state' = "1"
          /\ live_trade_state = "1" \/ (live_trade_state = "unset" /\ live_settings.live_auto_start)
    /\ live_run.pc # "idle" => live_trade_state' = live_trade_state

\* A stored "0" stays until set_live_trading_enabled(True); the auto-start
\* default is stored only while no value has been stored.
C27_SwitchSticky ==
    /\ live_trade_state = "0" /\ live_trade_state' # "0" =>
          live_trade_state' = "1" /\ live_run' = live_run
    /\ IsLiveStartStep /\ live_trade_state' # live_trade_state =>
          /\ live_trade_state = "unset" /\ live_settings.live_auto_start
          /\ live_trade_state' = "1"

\* A cycle that starts with a stored "0": it ends before the passes, with the
\* status of the gate that stopped it.
C27_OffCycle(statuses) ==
    IsLiveStartStep /\ live_trade_state = "0" =>
        /\ live_run'.pc = "idle"
        /\ live_orders' = live_orders
        /\ live_run'.calls = 0
        /\ IF ~live_settings.live_enable THEN live_run'.status = "live_env_off"
           ELSE IF ~live_settings.has_order_api
           THEN live_run'.status = "provider_unsupported"
           ELSE /\ live_run'.status \in statuses
                /\ live_run'.status = "standby" <=>
                      Len(live_accounts') = Len(live_accounts) + 1

\* C27 as claimed: after set_live_trading_enabled(False) every later cycle that
\* LIVE_ENABLE lets through places no order and returns status standby, until
\* set_live_trading_enabled(True).
C27_LiveToggleStickyAsClaimed ==
    [][C27_OrdersNeedSwitch /\ C27_SwitchSticky /\ C27_OffCycle({"standby"})]_vars

\* C27: execute_live_trading places orders only if live_enable is true and the
\* stored switch reads on at the start of the cycle; after
\* set_live_trading_enabled(False) every later cycle places no order, whatever
\* live_auto_start is, and returns standby, or balance_error when its pre-run
\* snapshot fails, until set_live_trading_enabled(True) is stored.
C27_LiveToggleSticky ==
    [][C27_OrdersNeedSwitch /\ C27_SwitchSticky /\ C27_OffCycle({"standby", "balance_error"})]_vars

\* A second cycle on standby under live_auto_start, after a first one that
\* placed an order and a stop command.
C27_Witness ==
    /\ live_trade_state = "0" /\ live_settings.live_auto_start
    /\ live_run.pc = "idle" /\ live_run.run_id = 2 /\ live_run.status = "standby"
    /\ live_orders # <<>>
    /\ \A i \in 1..Len(live_orders) : live_orders[i].run_id = 1

-----------------------------------------------------------------------------
(* Properties of the live buy budget *)

\* qty * price summed over the BUY orders of the cycle in flight recorded as
\* submitted; every candidate is quoted at LivePrice.
SubmittedBuyCost ==
    LET RECURSIVE Sum(_)
        Sum(S) == IF S = {} THEN 0
                  ELSE LET i == CHOOSE x \in S : TRUE
                       IN  live_orders[i].qty * LivePrice + Sum(S \ {i})
    IN  Sum(LiveBuys("submitted"))

\* What was bought and what is left add up to no more than the budget computed
\* from the mid-run snapshot.
C28_SpentWithinBudget ==
    live_run.pc = "entry" =>
        /\ SubmittedBuyCost <= live_run.work.summary_buy_budget
        /\ SubmittedBuyCost + live_run.work.buy_budget <= live_run.work.summary_buy_budget
        /\ live_run.work.buy_budget >= 0

\* The budget is bounded by the cash above the reserve and by the room under
\* live_max_capital_krw; it never grows during the entry pass.
C28_BudgetStep ==
    /\ IsMidSyncStep =>
          LET snap == IF live_sync'.completed THEN BrokerData(live_sync'.positions)
                      ELSE live_run.work.snap
              budget == live_run'.work.summary_buy_budget
          IN  /\ budget = live_run'.work.buy_budget
              /\ budget <= Max(0, snap.cash - Scaled(snap.total_asset,
                                                    live_run.work.risk.reserve_pct))
              /\ LiveMaxCapitalKrw > 0 =>
                    budget <= Max(0, LiveMaxCapitalKrw - SumEval(snap.positions))
    /\ live_run.pc = "entry" /\ live_run'.pc = "entry" =>
          /\ live_run'.work.buy_budget <= live_run.work.buy_budget
          /\ live_run'.work.summary_buy_budget = live_run.work.summary_buy_budget

\* C28: in one live cycle the sum of qty*price over the BUY orders recorded as
\* submitted never exceeds the buy budget computed from the mid-run snapshot;
\* that budget is at most max(0, cash - total_asset*reserve_pct) and at most
\* max(0, live_max_capital_krw - eval_amount of the held positions); the
\* remaining budget never increases during the entry pass.
C28_LiveCapitalBound == []C28_SpentWithinBudget /\ [][C28_BudgetStep]_vars

\* An entry pass that bought twice, the second time after a funding error had
\* cut the budget.
C28_Witness ==
    /\ live_run.pc = "entry"
    /\ Cardinality(LiveBuys("submitted")) = 2
    /\ SubmittedBuyCost > 0
    /\ SubmittedBuyCost + live_run.work.buy_budget < live_run.work.summary_buy_budget

-----------------------------------------------------------------------------
(* Properties of the two passes of a paper cycle *)

-----------------------------------------------------------------------------
(* Properties of the chat commands *)

\* Every update that was handled came from the configured chat.
C30_HandledFromAllowedChat ==
    \A i \in 1..Len(chat.handled) :
        chat.inbox[chat.handled[i]].chat_id = chat.allow_chat

\* The stored offset does not decrease, and a poll handles no update that an
\* offset write has covered.
C30_OffsetStep ==
    /\ chat'.offset >= chat.offset
    /\ \A i \in Len(chat.handled) + 1..Len(chat'.handled) :
          \A k \in 1..Len(chat.stored) : chat'.handled[i] # chat.stored[k]
    /\ live_trade_state' # live_trade_state => Len(chat'.handled) > Len(chat.handled)

\* C30: an update whose chat id differs from the configured TELEGRAM_CHAT_ID is
\* never handled (no reply, no state change, no switch of the live-trading
\* toggle), for every value of the configured chat id; the stored
\* telegram_offset never decreases, and an update consumed by a successful poll
\* is not handled again by a later poll.
C30_ChatAuthorisation == []C30_HandledFromAllowedChat /\ [][C30_OffsetStep]_vars

=============================================================================
